---- MODULE Spec2Model ----
(***************************************************************************)
(* Ownership-scoped content store of the communication-board backend:      *)
(* Profile -> Category -> ImageWord rows in a relational store, each       *)
(* Category / ImageWord carrying an asset key that points into a blob      *)
(* store.  Every HTTP request runs in its own relational session           *)
(* (db/database.py get_db); the services order blob-store calls and        *)
(* relational writes by hand (services/category_service.py,                *)
(* services/image_word_service.py, services/profile_service.py).           *)
(*                                                                         *)
(* A request is a process: pc[r] is the await point it is suspended at,    *)
(* tx[r] the writes its session has flushed but not committed, log[r] the  *)
(* storage / relational calls it has made so far.                          *)
(***************************************************************************)
EXTENDS Integers, Sequences, FiniteSets, TLC

\* ---- bounds of the model ------------------------------------------------
MaxStarted == 2    \* requests started in one behaviour of Spec
MaxStartedSeq == 2 \* requests started in one behaviour of SpecSeq
MaxStartedSeed == 2  \* requests started in one behaviour of SpecSeed
MaxStartedLogin == 2 \* logins started in one behaviour of SpecLogin
MaxCalls == 3        \* delete calls made on the storage backend in one behaviour of SpecStore
MaxUrlCalls == 3     \* get_image_url requests in one behaviour of SpecUrl
MaxNow == 4800       \* seconds of wall clock time in one behaviour of SpecUrl
Tick == 600          \* seconds between two readings of the clock

\* ---- values --------------------------------------------------------------
None == 0          \* Python None / SQL NULL in an image_url column
StrNone == -1      \* the string "None", i.e. str(None)
REUSE_MARGIN == 3000  \* seconds a cached presigned URL must still be valid for to be returned

Users == {"u1", "u2"}
Reqs == {"r1", "r2"}
Texts == {"t1"}

VARIABLES
    db,        \* committed relational state: profiles, categories, image_words
    blobs,     \* keys present in the blob store
    nextKey,   \* next uuid4 file name
    nextCat,   \* categories.id sequence
    nextWord,  \* image_words.id sequence
    pc,        \* per request: await point
    op,        \* per request: operation and arguments
    loc,       \* per request: local variables of the service method
    tx,        \* per request: writes flushed in the session, not yet committed
    resp,      \* per request: status of the response (0 while running)
    log,       \* per request: calls made so far, in order
    pre,       \* per request: stores as they were when the operation began
    started,   \* number of requests started
    nextProfile, \* profiles.id sequence
    seed,      \* per request: the registration / login / profile creation that is seeding
    seeded,    \* per user: default profiles that seed_initial_profile has had committed
    tts,       \* the text_to_speech call: loop position, attempt, outcomes of the requests sent
    store,     \* one storage backend on its own: its files and the delete calls made on it
    listing,  \* the last listing query: what was asked and the rows it returned, in order
    reset,    \* password reset: the token row, the user's password, row locks and the complete_password_reset calls
    urls       \* presigned URLs: the clock, the cache of the last service instance, the get_url calls

vars == <<db, blobs, nextKey, nextCat, nextWord, pc, op, loc, tx, resp, log, pre, started,
          nextProfile, seed, seeded, tts, store, listing, reset, urls>>

\* ---- sequences and ids ----------------------------------------------------
Min(S) == CHOOSE x \in S : \A y \in S : x <= y

RECURSIVE SortedSeq(_)
\* ids in ascending order: relationship(order_by="CategoryModel.id" / "ImageWordModel.id")
SortedSeq(S) == IF S = {} THEN <<>> ELSE <<Min(S)>> \o SortedSeq(S \ {Min(S)})

Without(f, D) == [i \in DOMAIN f \ D |-> f[i]]

\* str(x) as the services apply it to an image_url: a string is itself, None becomes "None"
Str(k) == IF k = None THEN StrNone ELSE k

\* Python truthiness of an image_url / key string: None and "" are falsy
Truthy(k) == k # None

\* ---- relational store -----------------------------------------------------
\* rows a user can reach through the ownership chain
ProfilesOf(d, u) == {p \in DOMAIN d.profiles : d.profiles[p].user_id = u}

CatsOfProfile(d, p) == {c \in DOMAIN d.categories : d.categories[c].profile_id = p}

WordsOfCat(d, c) == {w \in DOMAIN d.image_words : d.image_words[w].category_id = c}

CatsOfUser(d, u) == {c \in DOMAIN d.categories : d.categories[c].profile_id \in ProfilesOf(d, u)}

WordsOfUser(d, u) == {w \in DOMAIN d.image_words : d.image_words[w].category_id \in CatsOfUser(d, u)}

\* the UPDATE of ImageWordRepository.save moving the word to the category passed
save_values_WithCategory(row, w) ==
    [row EXCEPT !.category_id = w.parent, !.word = w.text, !.image_url = w.image_url]

\* update(ImageWordModel)....values(word=word_dto.word, image_url=word_dto.image_url)
save_values(row, w) == [row EXCEPT !.word = w.text, !.image_url = w.image_url]

\* one flushed statement applied to a store
Apply(w, d) ==
    CASE w.w = "ins_category" ->
           [d EXCEPT !.categories = d.categories @@ (w.id :> [profile_id |-> w.parent, name |-> w.text, image_url |-> w.image_url])]
      [] w.w = "ins_image_word" ->
           [d EXCEPT !.image_words = d.image_words @@ (w.id :> [category_id |-> w.parent, word |-> w.text, image_url |-> w.image_url])]
      [] w.w = "ins_profile" ->
           [d EXCEPT !.profiles = d.profiles @@ (w.id :> [user_id |-> w.text])]
      [] w.w = "ins_user" ->
           [d EXCEPT !.users = d.users \cup {w.text}]
      [] w.w = "upd_category" ->
           [d EXCEPT !.categories[w.id] =
               [@ EXCEPT !.name = w.text,
                         !.image_url = IF w.image_url # None THEN w.image_url ELSE @]]
      [] w.w = "upd_image_word" ->
           [d EXCEPT !.image_words[w.id] = save_values(@, w)]
      [] w.w = "del_image_word" ->
           [d EXCEPT !.image_words = Without(d.image_words, {w.id})]
      [] w.w = "del_category" ->
           [d EXCEPT !.categories = Without(d.categories, {w.id}),
                     !.image_words = Without(d.image_words, WordsOfCat(d, w.id))]
      [] w.w = "del_profile" ->
           LET cs == CatsOfProfile(d, w.id)
               ws == {x \in DOMAIN d.image_words : d.image_words[x].category_id \in cs}
           IN [d EXCEPT !.profiles = Without(d.profiles, {w.id}),
                        !.categories = Without(d.categories, cs),
                        !.image_words = Without(d.image_words, ws)]
      [] OTHER -> d

RECURSIVE ApplyAll(_, _)
ApplyAll(ws, d) == IF ws = <<>> THEN d ELSE ApplyAll(Tail(ws), Apply(Head(ws), d))

\* what the session of request r reads: committed rows plus its own flushed writes
View(r) == ApplyAll(tx[r], db)

Write(kind, id, parent, text, key) ==
    [w |-> kind, id |-> id, parent |-> parent, text |-> text, image_url |-> key]

\* rows a flushed statement holds a row lock on until its transaction ends
Locked(w, d) ==
    CASE w.w = "upd_category" -> {<<"c", w.id>>}
      [] w.w = "upd_image_word" -> {<<"w", w.id>>}
      [] w.w = "del_image_word" -> {<<"w", w.id>>}
      [] w.w = "del_category" -> {<<"c", w.id>>} \cup {<<"w", x>> : x \in WordsOfCat(d, w.id)}
      [] w.w = "del_profile" ->
           LET cs == CatsOfProfile(d, w.id)
           IN {<<"p", w.id>>} \cup {<<"c", c>> : c \in cs}
              \cup {<<"w", x>> : x \in {y \in DOMAIN d.image_words : d.image_words[y].category_id \in cs}}
      [] OTHER -> {}

\* tables without a foreign key: an INSERT locks no parent row
KeyShared_NoForeignKey(w) == {}

\* parent rows an INSERT holds a key-share lock on (foreign key check)
KeyShared(w) ==
    CASE w.w = "ins_category" -> {<<"p", w.parent>>}
      [] w.w = "ins_image_word" -> {<<"c", w.parent>>}
      [] OTHER -> {}

IsDelete(w) == w.w \in {"del_image_word", "del_category", "del_profile"}

\* two statements of different transactions cannot both be in flight
Conflict(w1, w2, d) ==
    \/ Locked(w1, d) \cap Locked(w2, d) # {}
    \/ IsDelete(w1) /\ Locked(w1, d) \cap KeyShared(w2) # {}
    \/ IsDelete(w2) /\ Locked(w2, d) \cap KeyShared(w1) # {}

\* the statement w of request r does not have to wait for another transaction
CanFlush(r, w) ==
    \A r2 \in Reqs \ {r} : \A i \in 1..Len(tx[r2]) : ~Conflict(w, tx[r2][i], db)

\* ---- blob store (services/image_storage_service.py) -----------------------
\* upload: a fresh uuid4 name is stored and returned; a backend error raises
StorageUpload(b, k, ok) == IF ok THEN b \cup {k} ELSE b

\* delete: removes the key when the backend call goes through; every backend
\* error is caught inside delete, which then returns False and removes nothing
StorageDelete(b, k, ok) == IF ok THEN b \ {k} ELSE b

\* ---- requests ---------------------------------------------------------------
EmptyDb == [users |-> {}, profiles |-> <<>>, categories |-> <<>>, image_words |-> <<>>]

NoSnap == [set |-> FALSE, db |-> EmptyDb, blobs |-> {}]

NoOp == [kind |-> "none", user |-> "u1", id |-> 0, text |-> "t1", img |-> FALSE, category_id |-> 0]

NoLoc == [image_url |-> None, old_image_url |-> None, new_image_url |-> None,
          urls_to_delete |-> <<>>, i |-> 1, err |-> "none"]

Ev(e, k, ok) == [e |-> e, k |-> k, ok |-> ok]

\* no registration, login or profile creation is in progress in the request
NoSeed == [kind |-> "none", user |-> "u1", profile_id |-> None, i |-> 0,
           created_categories |-> <<>>, failed |-> FALSE, snap |-> FALSE, db |-> EmptyDb]

\* the request is inside a create_category / save call made by the seeding
InSeedCall(r) == seed[r].kind # "none" /\ op[r].kind # seed[r].kind

Creates == {"create_category", "save"}
Updates == {"update_category", "update"}
Deletes == {"delete_category", "delete_by_id", "delete_profile"}
Reads == {"get_category_by_id", "find_by_id"}

\* the requests of one user on the ids in pids / cids / wids
OpsOf(us, pids, cids, wids) ==
    {[kind |-> "create_category", user |-> u, id |-> p, text |-> t, img |-> TRUE, category_id |-> 0] :
        u \in us, p \in pids, t \in Texts}
    \cup {[kind |-> "save", user |-> u, id |-> c, text |-> t, img |-> TRUE, category_id |-> 0] :
        u \in us, c \in cids, t \in Texts}
    \cup {[kind |-> k, user |-> u, id |-> c, text |-> t, img |-> i, category_id |-> 0] :
        k \in {"update_category"}, u \in us, c \in cids, t \in Texts, i \in BOOLEAN}
    \cup {[kind |-> k, user |-> u, id |-> w, text |-> t, img |-> i, category_id |-> g] :
        k \in {"update"}, u \in us, w \in wids, t \in Texts, i \in BOOLEAN, g \in cids}
    \cup {[kind |-> k, user |-> u, id |-> c, text |-> "t1", img |-> FALSE, category_id |-> 0] :
        k \in {"delete_category", "get_category_by_id"}, u \in us, c \in cids}
    \cup {[kind |-> k, user |-> u, id |-> w, text |-> "t1", img |-> FALSE, category_id |-> 0] :
        k \in {"delete_by_id", "find_by_id"}, u \in us, w \in wids}
    \cup {[kind |-> "delete_profile", user |-> u, id |-> p, text |-> "t1", img |-> FALSE, category_id |-> 0] :
        u \in us, p \in pids}

At(r, kind, at) == pc[r] = at /\ op[r].kind = kind

\* the service method returns or raises: status is what its caller sees
Finish(r, status, event) ==
    /\ pc' = [pc EXCEPT ![r] = "done"]
    /\ resp' = [resp EXCEPT ![r] = status]
    /\ log' = [log EXCEPT ![r] = @ \o event]

Goto(r, at, event) ==
    /\ pc' = [pc EXCEPT ![r] = at]
    /\ log' = [log EXCEPT ![r] = @ \o event]
    /\ resp' = resp

\* session.flush() of one statement: it waits for conflicting row locks
Flush(r, w) ==
    /\ CanFlush(r, w)
    /\ tx' = [tx EXCEPT ![r] = Append(@, w)]

\* session.rollback()
Rollback(r) == tx' = [tx EXCEPT ![r] = <<>>]

\* session.commit() going through
CommitOk(r) ==
    /\ db' = ApplyAll(tx[r], db)
    /\ tx' = [tx EXCEPT ![r] = <<>>]

\* a request arrives: FastAPI builds its session and calls the service method
Begin(r, o, snap) ==
    /\ pc[r] = "idle"
    /\ op' = [op EXCEPT ![r] = o]
    /\ pc' = [pc EXCEPT ![r] = IF o.kind \in Creates THEN "upload" ELSE "find"]
    /\ pre' = [pre EXCEPT ![r] = IF snap THEN [set |-> TRUE, db |-> db, blobs |-> blobs] ELSE NoSnap]
    /\ started' = started + 1
    /\ UNCHANGED <<db, blobs, nextKey, nextCat, nextWord, loc, tx, resp, log, nextProfile, seed, seeded, tts, store, listing, reset, urls>>

\* the response has been sent; get_db commits what is left in the session
\* after a normal return and rolls back after an exception
Return(r) ==
    /\ pc[r] = "done"
    /\ ~InSeedCall(r)
    /\ seed' = [seed EXCEPT ![r] = NoSeed]
    /\ db' = IF resp[r] < 400 THEN ApplyAll(tx[r], db) ELSE db
    /\ pc' = [pc EXCEPT ![r] = "idle"]
    /\ op' = [op EXCEPT ![r] = NoOp]
    /\ loc' = [loc EXCEPT ![r] = NoLoc]
    /\ tx' = [tx EXCEPT ![r] = <<>>]
    /\ resp' = [resp EXCEPT ![r] = 0]
    /\ log' = [log EXCEPT ![r] = <<>>]
    /\ pre' = [pre EXCEPT ![r] = NoSnap]
    /\ UNCHANGED <<blobs, nextKey, nextCat, nextWord, started, nextProfile, seeded, tts, store, listing, reset, urls>>

\* ---- CategoryService --------------------------------------------------------
\* the category lookup without the join on the owning user
find_category_by_id_AnyOwner(d, user_id, category_id) ==
    IF category_id \in DOMAIN d.categories THEN {category_id} ELSE {}

\* CategoryRepository.find_category_by_id / get_category_with_words / update_fields select
find_category_by_id(d, user_id, category_id) ==
    IF category_id \in CatsOfUser(d, user_id) THEN {category_id} ELSE {}

get_category_by_id(r) ==
    /\ At(r, "get_category_by_id", "find")
    /\ IF find_category_by_id(View(r), op[r].user, op[r].id) = {}
         THEN Finish(r, 404, <<>>)
         ELSE Finish(r, 200, <<>>)
    /\ UNCHANGED <<db, blobs, nextKey, nextCat, nextWord, op, loc, tx, pre, started, nextProfile, seed, seeded, tts, store, listing, reset, urls>>

\* create_category carrying on with the row write after a failed upload
create_category_upload_IgnoresFailure(r) ==
    /\ At(r, "create_category", "upload")
    /\ \E ok \in BOOLEAN :
         /\ blobs' = StorageUpload(blobs, nextKey, ok)
         /\ nextKey' = IF ok THEN nextKey + 1 ELSE nextKey
         /\ loc' = [loc EXCEPT ![r].image_url = IF ok THEN nextKey ELSE None]
         /\ Goto(r, "write", <<Ev("upload", IF ok THEN nextKey ELSE None, ok)>>)
    /\ UNCHANGED <<db, nextCat, nextWord, op, tx, pre, started, nextProfile, seed, seeded, tts, store, listing, reset, urls>>

\* image_url = await self.storage_service.upload(image_file)
create_category_upload(r) ==
    /\ At(r, "create_category", "upload")
    /\ \E ok \in BOOLEAN :
         /\ blobs' = StorageUpload(blobs, nextKey, ok)
         /\ nextKey' = IF ok THEN nextKey + 1 ELSE nextKey
         /\ loc' = [loc EXCEPT ![r].image_url = IF ok THEN nextKey ELSE None,
                               ![r].err = IF ok THEN "none" ELSE "Exception"]
         /\ IF ok THEN Goto(r, "write", <<Ev("upload", nextKey, TRUE)>>)
                  ELSE Goto(r, "except", <<Ev("upload", None, FALSE)>>)
    /\ UNCHANGED <<db, nextCat, nextWord, op, tx, pre, started, nextProfile, seed, seeded, tts, store, listing, reset, urls>>

\* created_category = await self.repo.save(user_id, category_create)
create_category_save(r) ==
    /\ At(r, "create_category", "write")
    /\ IF op[r].id \notin ProfilesOf(View(r), op[r].user)
         THEN \* raise NoResultFound("Unauthorized profile access.")
              /\ loc' = [loc EXCEPT ![r].err = "NoResultFound"]
              /\ Goto(r, "except", <<Ev("write", None, FALSE)>>)
              /\ UNCHANGED <<tx, nextCat>>
         ELSE \E ok \in BOOLEAN :
              IF ok
                THEN /\ Flush(r, Write("ins_category", nextCat, op[r].id, op[r].text, loc[r].image_url))
                     /\ nextCat' = nextCat + 1
                     /\ loc' = loc
                     /\ Goto(r, "commit", <<Ev("write", nextCat, TRUE)>>)
                ELSE /\ loc' = [loc EXCEPT ![r].err = "Exception"]
                     /\ Goto(r, "except", <<Ev("write", None, FALSE)>>)
                     /\ UNCHANGED <<tx, nextCat>>
    /\ UNCHANGED <<db, blobs, nextKey, nextWord, op, pre, started, nextProfile, seed, seeded, tts, store, listing, reset, urls>>

\* await self.repo.session.commit(); return Category.model_validate(created_category)
create_category_commit(r) ==
    /\ At(r, "create_category", "commit")
    /\ \E ok \in BOOLEAN :
         IF ok
           THEN /\ CommitOk(r)
                /\ loc' = loc
                /\ Finish(r, 201, <<Ev("commit", None, TRUE)>>)
           ELSE /\ Rollback(r)
                /\ db' = db
                /\ loc' = [loc EXCEPT ![r].err = "Exception"]
                /\ Goto(r, "except", <<Ev("commit", None, FALSE)>>)
    /\ UNCHANGED <<blobs, nextKey, nextCat, nextWord, op, pre, started, nextProfile, seed, seeded, tts, store, listing, reset, urls>>

\* create_category's except branch without the compensating delete
create_category_except_NoCleanup(r) ==
    /\ At(r, "create_category", "except")
    /\ blobs' = blobs
    /\ Finish(r, 500, <<>>)
    /\ Rollback(r)
    /\ UNCHANGED <<db, nextKey, nextCat, nextWord, op, loc, pre, started, nextProfile, seed, seeded, tts, store, listing, reset, urls>>

\* except Exception: delete the uploaded image, roll back, raise 500
create_category_except(r) ==
    /\ At(r, "create_category", "except")
    /\ IF Truthy(loc[r].image_url)
         THEN \E ok \in BOOLEAN :
                /\ blobs' = StorageDelete(blobs, loc[r].image_url, ok)
                /\ Finish(r, 500, <<Ev("delete", loc[r].image_url, ok)>>)
         ELSE /\ blobs' = blobs
              /\ Finish(r, 500, <<>>)
    /\ Rollback(r)
    /\ UNCHANGED <<db, nextKey, nextCat, nextWord, op, loc, pre, started, nextProfile, seed, seeded, tts, store, listing, reset, urls>>

create_category(r) ==
    \/ create_category_upload(r)
    \/ create_category_save(r)
    \/ create_category_commit(r)
    \/ create_category_except(r)

\* existing_category = find_category_by_id(...); old_image_url = str(existing_category.image_url)
update_category_find(r) ==
    /\ At(r, "update_category", "find")
    /\ IF find_category_by_id(View(r), op[r].user, op[r].id) = {}
         THEN /\ Finish(r, 404, <<>>)
              /\ loc' = loc
         ELSE /\ loc' = [loc EXCEPT ![r].old_image_url = Str(View(r).categories[op[r].id].image_url)]
              /\ Goto(r, IF op[r].img THEN "upload" ELSE "write", <<>>)
    /\ UNCHANGED <<db, blobs, nextKey, nextCat, nextWord, op, tx, pre, started, nextProfile, seed, seeded, tts, store, listing, reset, urls>>

\* if image_file: new_image_url = await self.storage_service.upload(image_file)
update_category_upload(r) ==
    /\ At(r, "update_category", "upload")
    /\ \E ok \in BOOLEAN :
         /\ blobs' = StorageUpload(blobs, nextKey, ok)
         /\ nextKey' = IF ok THEN nextKey + 1 ELSE nextKey
         /\ loc' = [loc EXCEPT ![r].new_image_url = IF ok THEN nextKey ELSE None,
                               ![r].err = IF ok THEN "none" ELSE "Exception"]
         /\ IF ok THEN Goto(r, "write", <<Ev("upload", nextKey, TRUE)>>)
                  ELSE Goto(r, "except", <<Ev("upload", None, FALSE)>>)
    /\ UNCHANGED <<db, nextCat, nextWord, op, tx, pre, started, nextProfile, seed, seeded, tts, store, listing, reset, urls>>

\* updated_category = await self.repo.update_fields(user_id, category_id, update_data)
update_category_update_fields(r) ==
    /\ At(r, "update_category", "write")
    /\ IF find_category_by_id(View(r), op[r].user, op[r].id) = {}
         THEN \* raise HTTPException(status_code=404)
              /\ loc' = [loc EXCEPT ![r].err = "HTTPException"]
              /\ Goto(r, "except", <<Ev("write", None, FALSE)>>)
              /\ tx' = tx
         ELSE \E ok \in BOOLEAN :
              IF ok
                THEN /\ Flush(r, Write("upd_category", op[r].id, None, op[r].text, loc[r].new_image_url))
                     /\ loc' = loc
                     /\ Goto(r, "commit", <<Ev("write", op[r].id, TRUE)>>)
                ELSE /\ loc' = [loc EXCEPT ![r].err = "Exception"]
                     /\ Goto(r, "except", <<Ev("write", None, FALSE)>>)
                     /\ tx' = tx
    /\ UNCHANGED <<db, blobs, nextKey, nextCat, nextWord, op, pre, started, nextProfile, seed, seeded, tts, store, listing, reset, urls>>

\* await self.repo.session.commit()
update_category_commit(r) ==
    /\ At(r, "update_category", "commit")
    /\ \E ok \in BOOLEAN :
         IF ok
           THEN /\ CommitOk(r)
                /\ loc' = loc
                /\ IF Truthy(loc[r].new_image_url) /\ Truthy(loc[r].old_image_url)
                     THEN Goto(r, "cleanup", <<Ev("commit", None, TRUE)>>)
                     ELSE Finish(r, 200, <<Ev("commit", None, TRUE)>>)
           ELSE /\ Rollback(r)
                /\ db' = db
                /\ loc' = [loc EXCEPT ![r].err = "Exception"]
                /\ Goto(r, "except", <<Ev("commit", None, FALSE)>>)
    /\ UNCHANGED <<blobs, nextKey, nextCat, nextWord, op, pre, started, nextProfile, seed, seeded, tts, store, listing, reset, urls>>

\* if new_image_url and old_image_url: await self.storage_service.delete(str(old_image_url))
update_category_cleanup(r) ==
    /\ At(r, "update_category", "cleanup")
    /\ \E ok \in BOOLEAN :
         /\ blobs' = StorageDelete(blobs, Str(loc[r].old_image_url), ok)
         /\ Finish(r, 200, <<Ev("delete", Str(loc[r].old_image_url), ok)>>)
    /\ UNCHANGED <<db, nextKey, nextCat, nextWord, op, loc, tx, pre, started, nextProfile, seed, seeded, tts, store, listing, reset, urls>>

\* update_category's except branch deleting the previous image instead of the new one
update_category_except_DeletesOld(r) ==
    /\ At(r, "update_category", "except")
    /\ IF Truthy(loc[r].new_image_url)
         THEN \E ok \in BOOLEAN :
                /\ blobs' = StorageDelete(blobs, loc[r].old_image_url, ok)
                /\ Finish(r, 500, <<Ev("delete", loc[r].old_image_url, ok)>>)
         ELSE /\ blobs' = blobs
              /\ Finish(r, 500, <<>>)
    /\ Rollback(r)
    /\ UNCHANGED <<db, nextKey, nextCat, nextWord, op, loc, pre, started, nextProfile, seed, seeded, tts, store, listing, reset, urls>>

\* except Exception: delete the new upload, roll back, raise 500
update_category_except(r) ==
    /\ At(r, "update_category", "except")
    /\ IF Truthy(loc[r].new_image_url)
         THEN \E ok \in BOOLEAN :
                /\ blobs' = StorageDelete(blobs, loc[r].new_image_url, ok)
                /\ Finish(r, 500, <<Ev("delete", loc[r].new_image_url, ok)>>)
         ELSE /\ blobs' = blobs
              /\ Finish(r, 500, <<>>)
    /\ Rollback(r)
    /\ UNCHANGED <<db, nextKey, nextCat, nextWord, op, loc, pre, started, nextProfile, seed, seeded, tts, store, listing, reset, urls>>

update_category(r) ==
    \/ update_category_find(r)
    \/ update_category_upload(r)
    \/ update_category_update_fields(r)
    \/ update_category_commit(r)
    \/ update_category_except(r)
    \/ update_category_cleanup(r)

\* the image_url values of rows, in the order given, falsy ones left out
RECURSIVE UrlsOf(_, _)
UrlsOf(rows, ids) ==
    IF ids = <<>> THEN <<>>
    ELSE (IF Truthy(rows[Head(ids)].image_url) THEN <<rows[Head(ids)].image_url>> ELSE <<>>)
         \o UrlsOf(rows, Tail(ids))

\* category = get_category_with_words(...); urls_to_delete = [str(category.image_url)] + word urls
delete_category_find(r) ==
    /\ At(r, "delete_category", "find")
    /\ LET d == View(r) IN
       IF find_category_by_id(d, op[r].user, op[r].id) = {}
         THEN /\ Finish(r, 404, <<>>)
              /\ loc' = loc
         ELSE /\ loc' = [loc EXCEPT ![r].urls_to_delete =
                            <<Str(d.categories[op[r].id].image_url)>>
                            \o UrlsOf(d.image_words, SortedSeq(WordsOfCat(d, op[r].id)))]
              /\ Goto(r, "write", <<>>)
    /\ UNCHANGED <<db, blobs, nextKey, nextCat, nextWord, op, tx, pre, started, nextProfile, seed, seeded, tts, store, listing, reset, urls>>

\* CategoryRepository.delete_category_by_id: DELETE ... RETURNING id
delete_category_by_id(d, user_id, category_id) == category_id \in CatsOfUser(d, user_id)

\* an except branch that lets an HTTPException through with its own status
delete_category_except_Reraises(status_code) ==
    IF status_code # 0 THEN status_code ELSE 500

\* except Exception: rollback, raise HTTPException(500); status_code is the
\* status of the exception caught when it is an HTTPException, 0 otherwise
delete_category_except(status_code) == 500

\* success = await self.repo.delete_category_by_id(...); if not success: raise 403
delete_category_delete(r) ==
    /\ At(r, "delete_category", "write")
    /\ \E ok \in BOOLEAN :
         IF ok /\ delete_category_by_id(View(r), op[r].user, op[r].id)
           THEN /\ Flush(r, Write("del_category", op[r].id, None, "t1", None))
                /\ loc' = loc
                /\ Goto(r, "commit", <<Ev("write", op[r].id, TRUE)>>)
           ELSE \* HTTPException(403) or a database error: both end in the except branch
                /\ Rollback(r)
                /\ loc' = [loc EXCEPT ![r].err = IF ok THEN "HTTPException" ELSE "Exception"]
                /\ Finish(r, delete_category_except(IF ok THEN 403 ELSE 0),
                          <<Ev("write", None, FALSE)>>)
    /\ UNCHANGED <<db, blobs, nextKey, nextCat, nextWord, op, pre, started, nextProfile, seed, seeded, tts, store, listing, reset, urls>>

\* delete_category going on to the storage cleanup although its commit failed
delete_category_commit_CleansAnyway(r) ==
    /\ At(r, "delete_category", "commit")
    /\ \E ok \in BOOLEAN :
         /\ IF ok THEN CommitOk(r) ELSE Rollback(r) /\ db' = db
         /\ Goto(r, "cleanup", <<Ev("commit", None, ok)>>)
    /\ UNCHANGED <<blobs, nextKey, nextCat, nextWord, op, loc, pre, started, nextProfile, seed, seeded, tts, store, listing, reset, urls>>

\* await self.repo.session.commit()
delete_category_commit(r) ==
    /\ At(r, "delete_category", "commit")
    /\ \E ok \in BOOLEAN :
         IF ok
           THEN /\ CommitOk(r)
                /\ IF loc[r].urls_to_delete = <<>>
                     THEN Finish(r, 204, <<Ev("commit", None, TRUE)>>)
                     ELSE Goto(r, "cleanup", <<Ev("commit", None, TRUE)>>)
           ELSE /\ Rollback(r)
                /\ db' = db
                /\ Finish(r, 500, <<Ev("commit", None, FALSE)>>)
    /\ UNCHANGED <<blobs, nextKey, nextCat, nextWord, op, loc, pre, started, nextProfile, seed, seeded, tts, store, listing, reset, urls>>

\* the category cleanup loop raising when a blob delete fails
delete_category_cleanup_Raises(r) ==
    /\ At(r, "delete_category", "cleanup")
    /\ \E ok \in BOOLEAN :
         LET url == loc[r].urls_to_delete[loc[r].i] IN
         /\ blobs' = StorageDelete(blobs, url, ok)
         /\ loc' = [loc EXCEPT ![r].i = @ + 1]
         /\ IF ~ok
              THEN Finish(r, 500, <<Ev("delete", url, ok)>>)
              ELSE IF loc[r].i = Len(loc[r].urls_to_delete)
                     THEN Finish(r, 204, <<Ev("delete", url, ok)>>)
                     ELSE Goto(r, "cleanup", <<Ev("delete", url, ok)>>)
    /\ UNCHANGED <<db, nextKey, nextCat, nextWord, op, tx, pre, started, nextProfile, seed, seeded, tts, store, listing, reset, urls>>

\* for url in urls_to_delete: await self.storage_service.delete(url)
delete_category_cleanup(r) ==
    /\ At(r, "delete_category", "cleanup")
    /\ \E ok \in BOOLEAN :
         LET url == loc[r].urls_to_delete[loc[r].i] IN
         /\ blobs' = StorageDelete(blobs, url, ok)
         /\ loc' = [loc EXCEPT ![r].i = @ + 1]
         /\ IF loc[r].i = Len(loc[r].urls_to_delete)
              THEN Finish(r, 204, <<Ev("delete", url, ok)>>)
              ELSE Goto(r, "cleanup", <<Ev("delete", url, ok)>>)
    /\ UNCHANGED <<db, nextKey, nextCat, nextWord, op, tx, pre, started, nextProfile, seed, seeded, tts, store, listing, reset, urls>>

delete_category(r) ==
    \/ delete_category_find(r)
    \/ delete_category_delete(r)
    \/ delete_category_commit(r)
    \/ delete_category_cleanup(r)

\* ---- ImageWordService --------------------------------------------------------
\* ImageWordRepository.find_image_word_by_id: join through category and profile to the user
find_image_word_by_id(d, user_id, word_id) ==
    IF word_id \in WordsOfUser(d, user_id) THEN {word_id} ELSE {}

find_by_id(r) ==
    /\ At(r, "find_by_id", "find")
    /\ IF find_image_word_by_id(View(r), op[r].user, op[r].id) = {}
         THEN Finish(r, 404, <<>>)
         ELSE Finish(r, 200, <<>>)
    /\ UNCHANGED <<db, blobs, nextKey, nextCat, nextWord, op, loc, tx, pre, started, nextProfile, seed, seeded, tts, store, listing, reset, urls>>

\* an upload that stores the asset under a name already in use instead of a fresh uuid4
save_upload_ReusesName(r) ==
    /\ At(r, "save", "upload")
    /\ \E ok \in BOOLEAN :
         LET key == IF blobs = {} THEN nextKey ELSE Min(blobs) IN
         /\ blobs' = StorageUpload(blobs, key, ok)
         /\ nextKey' = IF ok THEN nextKey + 1 ELSE nextKey
         /\ loc' = [loc EXCEPT ![r].image_url = IF ok THEN key ELSE None,
                               ![r].err = IF ok THEN "none" ELSE "Exception"]
         /\ IF ok THEN Goto(r, "write", <<Ev("upload", key, TRUE)>>)
                  ELSE Goto(r, "except", <<Ev("upload", None, FALSE)>>)
    /\ UNCHANGED <<db, nextCat, nextWord, op, tx, pre, started, nextProfile, seed, seeded, tts, store, listing, reset, urls>>

\* image_url = await self.storage_service.upload(image_file)
save_upload(r) ==
    /\ At(r, "save", "upload")
    /\ \E ok \in BOOLEAN :
         /\ blobs' = StorageUpload(blobs, nextKey, ok)
         /\ nextKey' = IF ok THEN nextKey + 1 ELSE nextKey
         /\ loc' = [loc EXCEPT ![r].image_url = IF ok THEN nextKey ELSE None,
                               ![r].err = IF ok THEN "none" ELSE "Exception"]
         /\ IF ok THEN Goto(r, "write", <<Ev("upload", nextKey, TRUE)>>)
                  ELSE Goto(r, "except", <<Ev("upload", None, FALSE)>>)
    /\ UNCHANGED <<db, nextCat, nextWord, op, tx, pre, started, nextProfile, seed, seeded, tts, store, listing, reset, urls>>

\* ImageWordRepository.save inserting without the check of the category's owner
save_save_Unchecked(r) ==
    /\ At(r, "save", "write")
    /\ Flush(r, Write("ins_image_word", nextWord, op[r].id, op[r].text, loc[r].image_url))
    /\ nextWord' = nextWord + 1
    /\ loc' = loc
    /\ Goto(r, "commit", <<Ev("write", nextWord, TRUE)>>)
    /\ UNCHANGED <<db, blobs, nextKey, nextCat, op, pre, started, nextProfile, seed, seeded, tts, store, listing, reset, urls>>

\* saved_data = await self.repo.save(user_id, word_data)   (word_id is None: INSERT)
save_save(r) ==
    /\ At(r, "save", "write")
    /\ IF find_category_by_id(View(r), op[r].user, op[r].id) = {}
         THEN \* raise NoResultFound("Category ... unauthorized or missing.")
              /\ loc' = [loc EXCEPT ![r].err = "NoResultFound"]
              /\ Goto(r, "except", <<Ev("write", None, FALSE)>>)
              /\ UNCHANGED <<tx, nextWord>>
         ELSE \E ok \in BOOLEAN :
              IF ok
                THEN /\ Flush(r, Write("ins_image_word", nextWord, op[r].id, op[r].text, loc[r].image_url))
                     /\ nextWord' = nextWord + 1
                     /\ loc' = loc
                     /\ Goto(r, "commit", <<Ev("write", nextWord, TRUE)>>)
                ELSE \* SQLAlchemyError: the repository rolls back and raises HTTPException(500)
                     /\ Rollback(r)
                     /\ nextWord' = nextWord
                     /\ loc' = [loc EXCEPT ![r].err = "HTTPException"]
                     /\ Goto(r, "except", <<Ev("write", None, FALSE)>>)
    /\ UNCHANGED <<db, blobs, nextKey, nextCat, op, pre, started, nextProfile, seed, seeded, tts, store, listing, reset, urls>>

\* await self.repo.session.commit(); return ImageWord.model_validate(saved_data)
save_commit(r) ==
    /\ At(r, "save", "commit")
    /\ \E ok \in BOOLEAN :
         IF ok
           THEN /\ CommitOk(r)
                /\ loc' = loc
                /\ Finish(r, 201, <<Ev("commit", None, TRUE)>>)
           ELSE /\ Rollback(r)
                /\ db' = db
                /\ loc' = [loc EXCEPT ![r].err = "Exception"]
                /\ Goto(r, "except", <<Ev("commit", None, FALSE)>>)
    /\ UNCHANGED <<blobs, nextKey, nextCat, nextWord, op, pre, started, nextProfile, seed, seeded, tts, store, listing, reset, urls>>

\* save's except branch with a storage delete that raises when it fails: the
\* rollback and the mapping of the first error are skipped
save_except_DeleteRaises(r) ==
    /\ At(r, "save", "except")
    /\ LET status == IF loc[r].err = "NoResultFound" THEN 404 ELSE 500 IN
       IF Truthy(loc[r].image_url)
         THEN \E ok \in BOOLEAN :
                /\ blobs' = StorageDelete(blobs, loc[r].image_url, ok)
                /\ Finish(r, IF ok THEN status ELSE 500, <<Ev("delete", loc[r].image_url, ok)>>)
                /\ IF ok THEN Rollback(r) ELSE tx' = tx
         ELSE /\ blobs' = blobs
              /\ Finish(r, status, <<>>)
              /\ Rollback(r)
    /\ UNCHANGED <<db, nextKey, nextCat, nextWord, op, loc, pre, started, nextProfile, seed, seeded, tts, store, listing, reset, urls>>

\* except NoResultFound -> 404; except Exception -> 500; both delete the upload and roll back
save_except(r) ==
    /\ At(r, "save", "except")
    /\ LET status == IF loc[r].err = "NoResultFound" THEN 404 ELSE 500 IN
       IF Truthy(loc[r].image_url)
         THEN \E ok \in BOOLEAN :
                /\ blobs' = StorageDelete(blobs, loc[r].image_url, ok)
                /\ Finish(r, status, <<Ev("delete", loc[r].image_url, ok)>>)
         ELSE /\ blobs' = blobs
              /\ Finish(r, status, <<>>)
    /\ Rollback(r)
    /\ UNCHANGED <<db, nextKey, nextCat, nextWord, op, loc, pre, started, nextProfile, seed, seeded, tts, store, listing, reset, urls>>

save(r) ==
    \/ save_upload(r)
    \/ save_save(r)
    \/ save_commit(r)
    \/ save_except(r)

\* current_word = await self.find_by_id(user_id, image_word_id); old_image_url = current_word.image_url
update_find(r) ==
    /\ At(r, "update", "find")
    /\ IF find_image_word_by_id(View(r), op[r].user, op[r].id) = {}
         THEN /\ Finish(r, 404, <<>>)
              /\ loc' = loc
         ELSE /\ loc' = [loc EXCEPT ![r].old_image_url = View(r).image_words[op[r].id].image_url]
              /\ Goto(r, IF op[r].img THEN "upload" ELSE "write", <<>>)
    /\ UNCHANGED <<db, blobs, nextKey, nextCat, nextWord, op, tx, pre, started, nextProfile, seed, seeded, tts, store, listing, reset, urls>>

\* if has_new_image: new_image_url = await self.storage_service.upload(image_file)
update_upload(r) ==
    /\ At(r, "update", "upload")
    /\ \E ok \in BOOLEAN :
         /\ blobs' = StorageUpload(blobs, nextKey, ok)
         /\ nextKey' = IF ok THEN nextKey + 1 ELSE nextKey
         /\ loc' = [loc EXCEPT ![r].new_image_url = IF ok THEN nextKey ELSE None,
                               ![r].err = IF ok THEN "none" ELSE "Exception"]
         /\ IF ok THEN Goto(r, "write", <<Ev("upload", nextKey, TRUE)>>)
                  ELSE Goto(r, "except", <<Ev("upload", None, FALSE)>>)
    /\ UNCHANGED <<db, nextCat, nextWord, op, tx, pre, started, nextProfile, seed, seeded, tts, store, listing, reset, urls>>

\* image_url=new_image_url if has_new_image else old_image_url
update_data_image_url(has_new_image, new_image_url, old_image_url) ==
    IF has_new_image THEN new_image_url ELSE old_image_url

\* updated_data = await self.repo.save(user_id, update_data, image_word_id)   (UPDATE ... RETURNING)
update_save(r) ==
    /\ At(r, "update", "write")
    /\ IF find_image_word_by_id(View(r), op[r].user, op[r].id) = {}
         THEN \* raise NoResultFound("Word ... not found or unauthorized.")
              /\ loc' = [loc EXCEPT ![r].err = "NoResultFound"]
              /\ Goto(r, "except", <<Ev("write", None, FALSE)>>)
              /\ tx' = tx
         ELSE \E ok \in BOOLEAN :
              IF ok
                THEN /\ Flush(r, Write("upd_image_word", op[r].id, op[r].category_id, op[r].text,
                                       update_data_image_url(op[r].img, loc[r].new_image_url, loc[r].old_image_url)))
                     /\ loc' = loc
                     /\ Goto(r, "commit", <<Ev("write", op[r].id, TRUE)>>)
                ELSE /\ Rollback(r)
                     /\ loc' = [loc EXCEPT ![r].err = "HTTPException"]
                     /\ Goto(r, "except", <<Ev("write", None, FALSE)>>)
    /\ UNCHANGED <<db, blobs, nextKey, nextCat, nextWord, op, pre, started, nextProfile, seed, seeded, tts, store, listing, reset, urls>>

\* await self.repo.session.commit()
update_commit(r) ==
    /\ At(r, "update", "commit")
    /\ \E ok \in BOOLEAN :
         IF ok
           THEN /\ CommitOk(r)
                /\ loc' = loc
                /\ IF op[r].img /\ Truthy(loc[r].old_image_url)
                     THEN Goto(r, "cleanup", <<Ev("commit", None, TRUE)>>)
                     ELSE Finish(r, 200, <<Ev("commit", None, TRUE)>>)
           ELSE /\ Rollback(r)
                /\ db' = db
                /\ loc' = [loc EXCEPT ![r].err = "Exception"]
                /\ Goto(r, "except", <<Ev("commit", None, FALSE)>>)
    /\ UNCHANGED <<blobs, nextKey, nextCat, nextWord, op, pre, started, nextProfile, seed, seeded, tts, store, listing, reset, urls>>

\* update's cleanup of the previous image raising when the backend call fails
update_cleanup_Raises(r) ==
    /\ At(r, "update", "cleanup")
    /\ \E ok \in BOOLEAN :
         /\ blobs' = StorageDelete(blobs, Str(loc[r].old_image_url), ok)
         /\ IF ok THEN Finish(r, 200, <<Ev("delete", Str(loc[r].old_image_url), ok)>>)
                  ELSE Goto(r, "except", <<Ev("delete", Str(loc[r].old_image_url), ok)>>)
    /\ UNCHANGED <<db, nextKey, nextCat, nextWord, op, loc, tx, pre, started, nextProfile, seed, seeded, tts, store, listing, reset, urls>>

\* if has_new_image and old_image_url: await self.storage_service.delete(str(old_image_url))
update_cleanup(r) ==
    /\ At(r, "update", "cleanup")
    /\ \E ok \in BOOLEAN :
         /\ blobs' = StorageDelete(blobs, Str(loc[r].old_image_url), ok)
         /\ Finish(r, 200, <<Ev("delete", Str(loc[r].old_image_url), ok)>>)
    /\ UNCHANGED <<db, nextKey, nextCat, nextWord, op, loc, tx, pre, started, nextProfile, seed, seeded, tts, store, listing, reset, urls>>

\* update's except branch without the compensating delete
update_except_NoCleanup(r) ==
    /\ At(r, "update", "except")
    /\ blobs' = blobs
    /\ Finish(r, IF loc[r].err = "NoResultFound" THEN 404 ELSE 500, <<>>)
    /\ Rollback(r)
    /\ UNCHANGED <<db, nextKey, nextCat, nextWord, op, loc, pre, started, nextProfile, seed, seeded, tts, store, listing, reset, urls>>

\* except Exception: delete the new upload, roll back, raise 404 (NoResultFound) or 500
update_except(r) ==
    /\ At(r, "update", "except")
    /\ LET status == IF loc[r].err = "NoResultFound" THEN 404 ELSE 500 IN
       IF Truthy(loc[r].new_image_url)
         THEN \E ok \in BOOLEAN :
                /\ blobs' = StorageDelete(blobs, loc[r].new_image_url, ok)
                /\ Finish(r, status, <<Ev("delete", loc[r].new_image_url, ok)>>)
         ELSE /\ blobs' = blobs
              /\ Finish(r, status, <<>>)
    /\ Rollback(r)
    /\ UNCHANGED <<db, nextKey, nextCat, nextWord, op, loc, pre, started, nextProfile, seed, seeded, tts, store, listing, reset, urls>>

update(r) ==
    \/ update_find(r)
    \/ update_upload(r)
    \/ update_save(r)
    \/ update_commit(r)
    \/ update_except(r)
    \/ update_cleanup(r)

\* image_word = await self.find_by_id(user_id, id)
delete_by_id_find(r) ==
    /\ At(r, "delete_by_id", "find")
    /\ IF find_image_word_by_id(View(r), op[r].user, op[r].id) = {}
         THEN /\ Finish(r, 404, <<>>)
              /\ loc' = loc
         ELSE /\ loc' = [loc EXCEPT ![r].image_url = View(r).image_words[op[r].id].image_url]
              /\ Goto(r, "write", <<>>)
    /\ UNCHANGED <<db, blobs, nextKey, nextCat, nextWord, op, tx, pre, started, nextProfile, seed, seeded, tts, store, listing, reset, urls>>

\* await self.repo.delete_image_word_by_id(user_id, id)   (the returned bool is not looked at)
delete_by_id_delete(r) ==
    /\ At(r, "delete_by_id", "write")
    /\ \E ok \in BOOLEAN :
         IF ok
           THEN /\ IF find_image_word_by_id(View(r), op[r].user, op[r].id) = {}
                     THEN tx' = tx
                     ELSE Flush(r, Write("del_image_word", op[r].id, None, "t1", None))
                /\ Goto(r, "commit", <<Ev("write", op[r].id, TRUE)>>)
           ELSE /\ Rollback(r)
                /\ Finish(r, 500, <<Ev("write", None, FALSE)>>)
    /\ UNCHANGED <<db, blobs, nextKey, nextCat, nextWord, op, loc, pre, started, nextProfile, seed, seeded, tts, store, listing, reset, urls>>

\* await self.repo.session.commit()
delete_by_id_commit(r) ==
    /\ At(r, "delete_by_id", "commit")
    /\ \E ok \in BOOLEAN :
         IF ok
           THEN /\ CommitOk(r)
                /\ IF Truthy(loc[r].image_url)
                     THEN Goto(r, "cleanup", <<Ev("commit", None, TRUE)>>)
                     ELSE Finish(r, 204, <<Ev("commit", None, TRUE)>>)
           ELSE /\ Rollback(r)
                /\ db' = db
                /\ Finish(r, 500, <<Ev("commit", None, FALSE)>>)
    /\ UNCHANGED <<blobs, nextKey, nextCat, nextWord, op, loc, pre, started, nextProfile, seed, seeded, tts, store, listing, reset, urls>>

\* if image_word.image_url: await self.storage_service.delete(str(image_word.image_url))
delete_by_id_cleanup(r) ==
    /\ At(r, "delete_by_id", "cleanup")
    /\ \E ok \in BOOLEAN :
         /\ blobs' = StorageDelete(blobs, Str(loc[r].image_url), ok)
         /\ Finish(r, 204, <<Ev("delete", Str(loc[r].image_url), ok)>>)
    /\ UNCHANGED <<db, nextKey, nextCat, nextWord, op, loc, tx, pre, started, nextProfile, seed, seeded, tts, store, listing, reset, urls>>

delete_by_id(r) ==
    \/ delete_by_id_find(r)
    \/ delete_by_id_delete(r)
    \/ delete_by_id_commit(r)
    \/ delete_by_id_cleanup(r)

\* ---- ProfileService ----------------------------------------------------------
\* ProfileRepository.find_by_id: the profile of that id owned by the user, categories and items loaded
find_profile_by_id(d, user_id, profile_id) ==
    IF profile_id \in ProfilesOf(d, user_id) THEN {profile_id} ELSE {}

RECURSIVE ProfileUrls(_, _)
\* for category in profile.categories: the category's url, then the urls of its items
ProfileUrls(d, cats) ==
    IF cats = <<>> THEN <<>>
    ELSE UrlsOf(d.categories, <<Head(cats)>>)
         \o UrlsOf(d.image_words, SortedSeq(WordsOfCat(d, Head(cats))))
         \o ProfileUrls(d, Tail(cats))

\* profile = await self.find_by_id(id, user_id); collect urls_to_delete
delete_profile_find(r) ==
    /\ At(r, "delete_profile", "find")
    /\ LET d == View(r) IN
       IF find_profile_by_id(d, op[r].user, op[r].id) = {}
         THEN /\ Finish(r, 404, <<>>)
              /\ loc' = loc
         ELSE /\ loc' = [loc EXCEPT ![r].urls_to_delete =
                            ProfileUrls(d, SortedSeq(CatsOfProfile(d, op[r].id)))]
              /\ Goto(r, "write", <<>>)
    /\ UNCHANGED <<db, blobs, nextKey, nextCat, nextWord, op, tx, pre, started, nextProfile, seed, seeded, tts, store, listing, reset, urls>>

\* await self.repo.delete(user_id, id)   (the returned bool is not looked at)
delete_profile_delete(r) ==
    /\ At(r, "delete_profile", "write")
    /\ \E ok \in BOOLEAN :
         IF ok
           THEN /\ IF find_profile_by_id(View(r), op[r].user, op[r].id) = {}
                     THEN tx' = tx
                     ELSE Flush(r, Write("del_profile", op[r].id, None, "t1", None))
                /\ Goto(r, "commit", <<Ev("write", op[r].id, TRUE)>>)
           ELSE /\ Rollback(r)
                /\ Finish(r, 500, <<Ev("write", None, FALSE)>>)
    /\ UNCHANGED <<db, blobs, nextKey, nextCat, nextWord, op, loc, pre, started, nextProfile, seed, seeded, tts, store, listing, reset, urls>>

\* await self.repo.session.commit()
delete_profile_commit(r) ==
    /\ At(r, "delete_profile", "commit")
    /\ \E ok \in BOOLEAN :
         IF ok
           THEN /\ CommitOk(r)
                /\ IF loc[r].urls_to_delete = <<>>
                     THEN Finish(r, 204, <<Ev("commit", None, TRUE)>>)
                     ELSE Goto(r, "cleanup", <<Ev("commit", None, TRUE)>>)
           ELSE /\ Rollback(r)
                /\ db' = db
                /\ Finish(r, 500, <<Ev("commit", None, FALSE)>>)
    /\ UNCHANGED <<blobs, nextKey, nextCat, nextWord, op, loc, pre, started, nextProfile, seed, seeded, tts, store, listing, reset, urls>>

\* the profile cleanup loop leaving the loop at the first delete that fails
delete_profile_cleanup_StopsOnFailure(r) ==
    /\ At(r, "delete_profile", "cleanup")
    /\ \E ok \in BOOLEAN :
         LET url == loc[r].urls_to_delete[loc[r].i] IN
         /\ blobs' = StorageDelete(blobs, url, ok)
         /\ loc' = [loc EXCEPT ![r].i = @ + 1]
         /\ IF loc[r].i = Len(loc[r].urls_to_delete) \/ ~ok
              THEN Finish(r, 204, <<Ev("delete", url, ok)>>)
              ELSE Goto(r, "cleanup", <<Ev("delete", url, ok)>>)
    /\ UNCHANGED <<db, nextKey, nextCat, nextWord, op, tx, pre, started, nextProfile, seed, seeded, tts, store, listing, reset, urls>>

\* for url in urls_to_delete: await self.image_storage_service.delete(url)
delete_profile_cleanup(r) ==
    /\ At(r, "delete_profile", "cleanup")
    /\ \E ok \in BOOLEAN :
         LET url == loc[r].urls_to_delete[loc[r].i] IN
         /\ blobs' = StorageDelete(blobs, url, ok)
         /\ loc' = [loc EXCEPT ![r].i = @ + 1]
         /\ IF loc[r].i = Len(loc[r].urls_to_delete)
              THEN Finish(r, 204, <<Ev("delete", url, ok)>>)
              ELSE Goto(r, "cleanup", <<Ev("delete", url, ok)>>)
    /\ UNCHANGED <<db, nextKey, nextCat, nextWord, op, tx, pre, started, nextProfile, seed, seeded, tts, store, listing, reset, urls>>

delete_profile(r) ==
    \/ delete_profile_find(r)
    \/ delete_profile_delete(r)
    \/ delete_profile_commit(r)
    \/ delete_profile_cleanup(r)

\* ---- seeding: UserService, ProfileService.save ------------------------------
\* ProfileService.seed_categories_and_image_words: (Category Name), (Target Category, Word Text)
categories_to_seed == <<"Algused", "Tegevused">>

words_to_seed ==
    << <<"Algused", "Ma tahan">>, <<"Algused", "Jah">>, <<"Algused", "Ei">>,
       <<"Tegevused", "mangima">>, <<"Tegevused", "sooma">>, <<"Tegevused", "magama">> >>

SeedSteps == Len(categories_to_seed) + Len(words_to_seed)

\* the registration / login / profile creation the request is serving
TriggerOp(r) ==
    [NoOp EXCEPT !.kind = seed[r].kind, !.user = seed[r].user, !.id = seed[r].profile_id]

\* a registration, login or profile creation arrives
BeginSeed(r, kind, u, snap) ==
    /\ pc[r] = "idle"
    /\ seed' = [seed EXCEPT ![r] = [NoSeed EXCEPT !.kind = kind, !.user = u, !.snap = snap,
                                                 !.db = IF snap THEN db ELSE EmptyDb]]
    /\ op' = [op EXCEPT ![r] = [NoOp EXCEPT !.kind = kind, !.user = u]]
    /\ pc' = [pc EXCEPT ![r] = IF kind = "save_profile" THEN "prof_save" ELSE "get_by_email"]
    /\ started' = started + 1
    /\ UNCHANGED <<db, blobs, nextKey, nextCat, nextWord, nextProfile, loc, tx, resp, log, pre, seeded, tts, store, listing, reset, urls>>

\* create_profile: except Exception -> 400, whatever ProfileService.save raised
create_profile_except(status_code) == 400

\* an exception leaves the seeding: register_user and ProfileService.save catch
\* it, roll back and raise 500; authenticate_user has no handler, the exception
\* reaches the endpoint as it is and get_db rolls the session back
SeedRaise(r, status_code) ==
    /\ pc' = [pc EXCEPT ![r] = "done"]
    /\ op' = [op EXCEPT ![r] = TriggerOp(r)]
    /\ resp' = [resp EXCEPT ![r] = CASE seed[r].kind = "authenticate_user" -> status_code
                                      [] seed[r].kind = "save_profile" -> create_profile_except(500)
                                      [] OTHER -> 500]
    /\ tx' = [tx EXCEPT ![r] = <<>>]
    /\ seed' = [seed EXCEPT ![r].failed = TRUE]
    /\ log' = [log EXCEPT ![r] = <<>>]

\* the seeding goes on at pc `at` of the triggering operation
SeedGoto(r, at) ==
    /\ pc' = [pc EXCEPT ![r] = at]
    /\ UNCHANGED <<op, resp, log>>

\* existing_user = await self.repo.get_by_email(user_data.email)
register_user_get_by_email(r) ==
    /\ At(r, "register_user", "get_by_email")
    /\ IF op[r].user \in View(r).users
         THEN Finish(r, 400, <<>>)
         ELSE Goto(r, "create", <<>>)
    /\ UNCHANGED <<db, blobs, nextKey, nextCat, nextWord, nextProfile, op, loc, tx, pre, started, seed, seeded, tts, store, listing, reset, urls>>

\* user_model = await self.repo.create(user_data, hashed); await self.repo.session.flush()
register_user_create(r) ==
    /\ At(r, "register_user", "create")
    /\ \E ok \in BOOLEAN :
         IF ok
           THEN /\ Flush(r, Write("ins_user", None, None, op[r].user, None))
                /\ SeedGoto(r, "find_all_by_user")
                /\ seed' = seed
           ELSE SeedRaise(r, 500)
    /\ UNCHANGED <<db, blobs, nextKey, nextCat, nextWord, nextProfile, loc, pre, started, seeded, tts, store, listing, reset, urls>>

\* try: ... await self.repo.session.commit(); return user_model.to_user_out()
register_user_commit(r) ==
    /\ At(r, "register_user", "commit")
    /\ \E ok \in BOOLEAN :
         IF ok
           THEN /\ CommitOk(r)
                /\ Finish(r, 201, <<>>)
           ELSE /\ Rollback(r)
                /\ db' = db
                /\ Finish(r, 500, <<>>)
    /\ UNCHANGED <<blobs, nextKey, nextCat, nextWord, nextProfile, op, loc, pre, started, seed, seeded, tts, store, listing, reset, urls>>

register_user(r) ==
    \/ register_user_get_by_email(r)
    \/ register_user_create(r)
    \/ register_user_commit(r)

\* user = await self.repo.get_by_email(...); if not user or not verify_password(...): return None
authenticate_user_get_by_email(r) ==
    /\ At(r, "authenticate_user", "get_by_email")
    /\ \E valid \in BOOLEAN :
         IF op[r].user \notin View(r).users \/ ~valid
           THEN Finish(r, 401, <<>>)
           ELSE Goto(r, "find_all_by_user", <<>>)
    /\ UNCHANGED <<db, blobs, nextKey, nextCat, nextWord, nextProfile, op, loc, tx, pre, started, seed, seeded, tts, store, listing, reset, urls>>

\* await self.repo.session.commit(); return user.to_user_out()
authenticate_user_commit(r) ==
    /\ At(r, "authenticate_user", "commit")
    /\ \E ok \in BOOLEAN :
         IF ok
           THEN /\ CommitOk(r)
                /\ Finish(r, 200, <<>>)
           ELSE /\ Rollback(r)
                /\ db' = db
                /\ Finish(r, 500, <<>>)
    /\ UNCHANGED <<blobs, nextKey, nextCat, nextWord, nextProfile, op, loc, pre, started, seed, seeded, tts, store, listing, reset, urls>>

authenticate_user(r) ==
    \/ authenticate_user_get_by_email(r)
    \/ authenticate_user_commit(r)

\* seed_initial_profile without the check for existing profiles
seed_initial_profile_find_AlwaysSeeds(r) ==
    /\ pc[r] = "find_all_by_user"
    /\ op[r].kind \in {"register_user", "authenticate_user"}
    /\ SeedGoto(r, "prof_save")
    /\ UNCHANGED <<db, blobs, nextKey, nextCat, nextWord, nextProfile, loc, tx, pre, started, seed, seeded, tts, store, listing, reset, urls>>

\* existing_profiles = await self.prof_repo.find_all_by_user(user_id); if not existing_profiles: ...
seed_initial_profile_find(r) ==
    /\ pc[r] = "find_all_by_user"
    /\ op[r].kind \in {"register_user", "authenticate_user"}
    /\ IF ProfilesOf(View(r), op[r].user) = {}
         THEN SeedGoto(r, "prof_save")
         ELSE SeedGoto(r, "commit")
    /\ UNCHANGED <<db, blobs, nextKey, nextCat, nextWord, nextProfile, loc, tx, pre, started, seed, seeded, tts, store, listing, reset, urls>>

\* ProfileRepository.save: session.add(profile); flush(); refresh(profile)
ProfileSave(r) ==
    \E ok \in BOOLEAN :
        IF ok
          THEN /\ Flush(r, Write("ins_profile", nextProfile, None, op[r].user, None))
               /\ nextProfile' = nextProfile + 1
               /\ seed' = [seed EXCEPT ![r].profile_id = nextProfile, ![r].i = 1]
               /\ SeedGoto(r, "seed")
          ELSE /\ SeedRaise(r, 500)
               /\ nextProfile' = nextProfile

\* new_profile = await self.prof_repo.save(user_id, ProfileCreate(name="Vaikimisi"))
seed_initial_profile_save(r) ==
    /\ pc[r] = "prof_save"
    /\ op[r].kind \in {"register_user", "authenticate_user"}
    /\ ProfileSave(r)
    /\ UNCHANGED <<db, blobs, nextKey, nextCat, nextWord, loc, pre, started, seeded, tts, store, listing, reset, urls>>

seed_initial_profile(r) ==
    \/ seed_initial_profile_find(r)
    \/ seed_initial_profile_save(r)

\* the seeding calls category_service.create_category / image_word_service.save
SeedCall(r, o) ==
    /\ op' = [op EXCEPT ![r] = o]
    /\ pc' = [pc EXCEPT ![r] = "upload"]
    /\ loc' = [loc EXCEPT ![r] = NoLoc]
    /\ log' = [log EXCEPT ![r] = <<>>]
    /\ pre' = [pre EXCEPT ![r] = IF seed[r].snap THEN [set |-> TRUE, db |-> db, blobs |-> blobs] ELSE NoSnap]
    /\ UNCHANGED <<resp, tx, seed>>

\* the next catalog entry: two categories, then six words
seed_categories_and_image_words_call(r) ==
    /\ pc[r] = "seed"
    /\ seed[r].kind # "none"
    /\ LET i == seed[r].i
           created_categories == seed[r].created_categories
       IN
       \E found \in BOOLEAN :  \* seeding_service.get_upload_file raises FileNotFoundError
         IF i <= Len(categories_to_seed)
           THEN IF found
                  THEN SeedCall(r, [kind |-> "create_category", user |-> seed[r].user,
                                    id |-> seed[r].profile_id, text |-> categories_to_seed[i], img |-> TRUE, category_id |-> 0])
                  ELSE SeedRaise(r, 500) /\ UNCHANGED <<loc, pre>>
           ELSE LET cat_name == words_to_seed[i - Len(categories_to_seed)][1]
                    word_text == words_to_seed[i - Len(categories_to_seed)][2]
                IN
                IF cat_name \in DOMAIN created_categories /\ created_categories[cat_name] # 0
                  THEN IF found
                         THEN SeedCall(r, [kind |-> "save", user |-> seed[r].user,
                                           id |-> created_categories[cat_name], text |-> word_text, img |-> TRUE, category_id |-> 0])
                         ELSE SeedRaise(r, 500) /\ UNCHANGED <<loc, pre>>
                  ELSE \* logger.warning("Skipping word ..."): on to the next entry
                       /\ seed' = [seed EXCEPT ![r].i = i + 1]
                       /\ SeedGoto(r, IF i = SeedSteps THEN "commit" ELSE "seed")
                       /\ UNCHANGED <<loc, pre, tx>>
    /\ UNCHANGED <<db, blobs, nextKey, nextCat, nextWord, nextProfile, started, seeded, tts, store, listing, reset, urls>>

\* the id of the row the create_category / save call that has just returned inserted
CreatedId(r) == log[r][CHOOSE j \in DOMAIN log[r] : log[r][j].e = "write" /\ log[r][j].ok].k

\* create_category / save returns to the seeding loop, or its HTTPException leaves the loop
seed_categories_and_image_words_return(r) ==
    /\ pc[r] = "done"
    /\ InSeedCall(r)
    /\ IF resp[r] < 400
         THEN /\ seed' = [seed EXCEPT
                    ![r].i = @ + 1,
                    ![r].created_categories =
                        IF op[r].kind = "create_category" THEN (op[r].text :> CreatedId(r)) @@ @ ELSE @]
              /\ seeded' = [seeded EXCEPT ![seed[r].user] =
                    IF seed[r].i = 1 /\ seed[r].kind \in {"register_user", "authenticate_user"}
                      THEN @ + 1 ELSE @]
              /\ op' = [op EXCEPT ![r] = TriggerOp(r)]
              /\ pc' = [pc EXCEPT ![r] = IF seed[r].i = SeedSteps THEN "commit" ELSE "seed"]
              /\ resp' = [resp EXCEPT ![r] = 0]
              /\ log' = [log EXCEPT ![r] = <<>>]
              /\ tx' = tx
         ELSE /\ SeedRaise(r, resp[r])
              /\ seeded' = seeded
    /\ loc' = [loc EXCEPT ![r] = NoLoc]
    /\ pre' = [pre EXCEPT ![r] = NoSnap]
    /\ UNCHANGED <<db, blobs, nextKey, nextCat, nextWord, nextProfile, started, tts, store, listing, reset, urls>>

seed_categories_and_image_words(r) ==
    \/ seed_categories_and_image_words_call(r)
    \/ seed_categories_and_image_words_return(r)

\* saved_profile = await self.repo.save(user_id, profile_dto)
save_profile_save(r) ==
    /\ At(r, "save_profile", "prof_save")
    /\ ProfileSave(r)
    /\ UNCHANGED <<db, blobs, nextKey, nextCat, nextWord, loc, pre, started, seeded, tts, store, listing, reset, urls>>

\* await self.repo.session.commit()
save_profile_commit(r) ==
    /\ At(r, "save_profile", "commit")
    /\ \E ok \in BOOLEAN :
         IF ok
           THEN /\ CommitOk(r)
                /\ Goto(r, "find", <<>>)
           ELSE /\ Rollback(r)
                /\ db' = db
                /\ Finish(r, create_profile_except(500), <<>>)
    /\ UNCHANGED <<blobs, nextKey, nextCat, nextWord, nextProfile, op, loc, pre, started, seed, seeded, tts, store, listing, reset, urls>>

\* fetched_profile = await self.find_by_id(profile_id, user_id); if not fetched_profile: raise
save_profile_find(r) ==
    /\ At(r, "save_profile", "find")
    /\ IF find_profile_by_id(View(r), op[r].user, seed[r].profile_id) = {}
         THEN Finish(r, create_profile_except(500), <<>>)
         ELSE Finish(r, 201, <<>>)
    /\ Rollback(r)
    /\ UNCHANGED <<db, blobs, nextKey, nextCat, nextWord, nextProfile, op, loc, pre, started, seed, seeded, tts, store, listing, reset, urls>>

save_profile(r) ==
    \/ save_profile_save(r)
    \/ save_profile_commit(r)
    \/ save_profile_find(r)

\* ---- TtsService ---------------------------------------------------------------
MAX_RETRIES == 5
BASE_DELAY_MS == 500

NoTts == [pc |-> "idle", attempt |-> 0, delay_s |-> 0, sent |-> <<>>, slept |-> <<>>, status_code |-> 0]

\* what one POST to the upstream endpoint comes back with: a response with its
\* status code, or the exception the http client raised
Response(status_code) == [raised |-> "none", status_code |-> status_code]
Raised(e) == [raised |-> e, status_code |-> 0]
Upstream ==
    {Response(c) : c \in {200, 400, 429, 503}} \cup {Raised(e) : e \in {"RequestError", "TimeoutError"}}

RECURSIVE Pow2(_)
Pow2(n) == IF n = 0 THEN 1 ELSE 2 * Pow2(n - 1)

\* delay_s = BASE_DELAY * 2^attempt + random.uniform(0, BASE_DELAY), in milliseconds
Delay(attempt, jitter) == BASE_DELAY_MS * Pow2(attempt) + jitter

\* await asyncio.sleep(delay_s), as _make_request(payload, attempt) calls it
Sleep(attempt, delay_s) == [attempt |-> attempt, delay_s |-> delay_s]

\* a classification that retries on every error status
IsRetryable_AnyError(status_code) == status_code >= 400

\* status_code == 429 or status_code >= 500
IsRetryable(status_code) == status_code = 429 \/ status_code >= 500

\* the call goes on at pc `at`
TtsGoto(t, at) ==
    /\ tts' = [t EXCEPT !.pc = at]
    /\ UNCHANGED <<db, blobs, nextKey, nextCat, nextWord, pc, op, loc, tx, resp, log, pre, started,
                   nextProfile, seed, seeded, store, listing, reset, urls>>

\* the call returns the audio bytes (200) or raises HTTPException(status_code)
TtsFinish(t, status_code) == TtsGoto([t EXCEPT !.status_code = status_code], "done")

\* text_to_speech(text, speaker, speed) is called
text_to_speech_call ==
    /\ tts.pc = "idle"
    /\ TtsGoto(NoTts, "loop")

\* for attempt in range(MAX_RETRIES): ... self._make_request(payload, attempt), which
\* computes its delay first; after the loop: raise HTTPException(500)
text_to_speech_loop ==
    /\ tts.pc = "loop"
    /\ IF tts.attempt < MAX_RETRIES
         THEN \E jitter \in {0, BASE_DELAY_MS} :
                TtsGoto([tts EXCEPT !.delay_s = Delay(tts.attempt, jitter)], "post")
         ELSE TtsFinish(tts, 500)

\* response = await self.http_client.post(API_URL, ...) and the classification of the response
make_request_post ==
    /\ tts.pc = "post"
    /\ \E response \in Upstream :
         LET t == [tts EXCEPT !.sent = Append(@, response)]
             status_code == response.status_code
         IN
         IF response.raised # "none"
           THEN TtsGoto(t, "except")
           ELSE IF 200 <= status_code /\ status_code < 300
                  THEN TtsFinish(t, 200)
                  ELSE IF IsRetryable(status_code)
                         THEN IF tts.attempt < MAX_RETRIES - 1
                                THEN TtsGoto(t, "sleep")
                                ELSE TtsFinish(t, 503)
                         ELSE TtsFinish(t, 400)

\* await asyncio.sleep(delay_s); raise httpx.RequestError(...): raised inside the
\* try, so the except clause of _make_request itself catches it
make_request_sleep ==
    /\ tts.pc = "sleep"
    /\ TtsGoto([tts EXCEPT !.slept = Append(@, Sleep(tts.attempt, tts.delay_s))], "except")

\* an except clause that sleeps and re-raises at every attempt
make_request_except_AlwaysReraises ==
    /\ tts.pc = "except"
    /\ TtsGoto([tts EXCEPT !.slept = Append(@, Sleep(tts.attempt, tts.delay_s))], "continue")

\* an except clause that gives up one attempt early
make_request_except_GivesUpEarly ==
    /\ tts.pc = "except"
    /\ IF tts.attempt < MAX_RETRIES - 2
         THEN TtsGoto([tts EXCEPT !.slept = Append(@, Sleep(tts.attempt, tts.delay_s))], "continue")
         ELSE TtsFinish(tts, 503)

\* except (httpx.RequestError, asyncio.TimeoutError): sleep and re-raise, or 503
make_request_except ==
    /\ tts.pc = "except"
    /\ IF tts.attempt < MAX_RETRIES - 1
         THEN TtsGoto([tts EXCEPT !.slept = Append(@, Sleep(tts.attempt, tts.delay_s))], "continue")
         ELSE TtsFinish(tts, 503)

make_request ==
    \/ make_request_post
    \/ make_request_sleep
    \/ make_request_except

\* a `continue` that starts the same attempt again
text_to_speech_continue_SameAttempt ==
    /\ tts.pc = "continue"
    /\ TtsGoto(tts, "loop")

\* except (httpx.RequestError, asyncio.TimeoutError): continue, to the next attempt
text_to_speech_continue ==
    /\ tts.pc = "continue"
    /\ TtsGoto([tts EXCEPT !.attempt = @ + 1], "loop")

text_to_speech ==
    \/ text_to_speech_call
    \/ text_to_speech_loop
    \/ text_to_speech_continue

\* ---- storage backends (services/image_storage_service.py) ---------------------
\* file names upload can hand out: "<uuid4><extension>", one path segment
Names == {"a.png", "b.png"}

\* a key is a path, the sequence of its segments
Keys == {<<n>> : n \in Names}

NoStore == [backend |-> "none", files |-> {}, calls |-> <<>>]

\* os.path.basename(filename)
basename(filename) == <<filename[Len(filename)]>>

\* LocalStorageService.delete: os.remove of an existing file gives True, a file
\* that is not there gives False, an exception of the file system is caught
LocalStorageService_delete(files, filename, raises) ==
    LET filepath == basename(filename) IN
    IF filepath \in files
      THEN IF raises THEN [files |-> files, result |-> FALSE]
                     ELSE [files |-> files \ {filepath}, result |-> TRUE]
      ELSE [files |-> files, result |-> FALSE]

\* CloudflareR2Service.delete: delete_object, then return True; an exception of
\* the client is caught. The object store answers a DeleteObject for a key it
\* does not hold like one for a key it holds.
CloudflareR2Service_delete(files, filename, raises) ==
    LET safe_key == basename(filename) IN
    IF raises THEN [files |-> files, result |-> FALSE]
              ELSE [files |-> files \ {safe_key}, result |-> TRUE]

StorageStep(st) ==
    /\ store' = st
    /\ UNCHANGED <<db, blobs, nextKey, nextCat, nextWord, pc, op, loc, tx, resp, log, pre, started,
                   nextProfile, seed, seeded, tts, listing, reset, urls>>

\* get_storage_service(): the backend STORAGE_TYPE selects
get_storage_service ==
    /\ store.backend = "none"
    /\ \E STORAGE_TYPE \in {"LOCAL", "CLOUDFLARE"} :
         StorageStep([store EXCEPT !.backend = STORAGE_TYPE])

\* upload(file): stored under a fresh name; an error raises and stores nothing
storage_upload ==
    /\ store.backend # "none"
    /\ \E filename \in Keys \ store.files, ok \in BOOLEAN :
         StorageStep([store EXCEPT !.files = StorageUpload(@, filename, ok)])

\* delete(filename) on the selected backend
storage_delete ==
    /\ store.backend # "none"
    /\ Len(store.calls) < MaxCalls
    /\ \E filename \in Keys, raises \in BOOLEAN :
         LET out == IF store.backend = "LOCAL"
                      THEN LocalStorageService_delete(store.files, filename, raises)
                      ELSE CloudflareR2Service_delete(store.files, filename, raises)
         IN StorageStep([store EXCEPT
                !.files = out.files,
                !.calls = Append(@, [filename |-> filename, before |-> store.files,
                                     after |-> out.files, result |-> out.result])])

\* ---- listings --------------------------------------------------------------
NoListing == [kind |-> "none", user |-> "u1", parent |-> 0, result |-> <<>>]

\* the orders in which a SELECT without ORDER BY can return the rows of S
AnyOrder(S) == {q \in [1..Cardinality(S) -> S] : \A i, j \in DOMAIN q : q[i] = q[j] => i = j}

ListingStep(kind, u, parent, result) ==
    /\ listing' = [kind |-> kind, user |-> u, parent |-> parent, result |-> result]
    /\ UNCHANGED <<db, blobs, nextKey, nextCat, nextWord, pc, op, loc, tx, resp, log, pre, started,
                   nextProfile, seed, seeded, tts, store, reset, urls>>

\* select(CategoryModel).join(ProfileModel).where(profile_id == ..., user_id == ...): no ORDER BY
find_by_profile(user_id, profile_id) ==
    \E result \in AnyOrder(CatsOfProfile(db, profile_id) \cap CatsOfUser(db, user_id)) :
        ListingStep("find_by_profile", user_id, profile_id, result)

\* select(ImageWordModel).join(CategoryModel).join(ProfileModel).where(...): no ORDER BY
get_image_words_by_category(user_id, category_id) ==
    \E result \in AnyOrder(WordsOfCat(db, category_id) \cap WordsOfUser(db, user_id)) :
        ListingStep("get_image_words_by_category", user_id, category_id, result)

\* ProfileModel.categories as find_by_id loads it: relationship(order_by="CategoryModel.id")
profile_categories(user_id, profile_id) ==
    /\ find_profile_by_id(db, user_id, profile_id) # {}
    /\ ListingStep("profile_categories", user_id, profile_id, SortedSeq(CatsOfProfile(db, profile_id)))

\* ---- password reset (services/user_service.py) --------------------------------
NoCall == [pc |-> "idle", new_password |-> "p0", upd |-> FALSE, del |-> FALSE, result |-> "none"]

\* no token has been issued; the user's password is the one set at registration
NoReset == [token |-> FALSE, issued |-> FALSE, expired |-> FALSE, hashed_password |-> "p0",
            ulock |-> "none", tlock |-> "none", call |-> [c \in Reqs |-> NoCall]]

ResetStep(x) ==
    /\ reset' = x
    /\ UNCHANGED <<db, blobs, nextKey, nextCat, nextWord, pc, op, loc, tx, resp, log, pre, started,
                   nextProfile, seed, seeded, tts, store, listing, urls>>

\* the call returns (True / False) or raises; its transaction has ended and its locks are free
ResetReturn(x, c, result) ==
    ResetStep([x EXCEPT !.call[c].pc = "done", !.call[c].result = result,
                        !.call[c].upd = FALSE, !.call[c].del = FALSE,
                        !.ulock = IF @ = c THEN "none" ELSE @,
                        !.tlock = IF @ = c THEN "none" ELSE @])

\* initiate_password_reset: a token row with expires_at = now + 1 hour is committed
initiate_password_reset ==
    /\ ~reset.issued
    /\ ResetStep([reset EXCEPT !.token = TRUE, !.issued = TRUE])

\* time passes expires_at
token_expires ==
    /\ reset.issued
    /\ ~reset.expired
    /\ ResetStep([reset EXCEPT !.expired = TRUE])

\* record = await self.repo.get_reset_token_record(data.token); if not record: return False
complete_password_reset_get(c) ==
    /\ reset.call[c].pc = "idle"
    /\ reset.issued
    /\ \E new_password \in {"p1", "p2"} :
         LET x == [reset EXCEPT !.call[c].new_password = new_password] IN
         IF reset.token
           THEN ResetStep([x EXCEPT !.call[c].pc = "check"])
           ELSE ResetReturn(x, c, "False")

\* if datetime.now(timezone.utc) > record.expires_at: delete the token, commit, return False
complete_password_reset_check(c) ==
    /\ reset.call[c].pc = "check"
    /\ IF reset.expired
         THEN ResetStep([reset EXCEPT !.call[c].pc = "delete_expired"])
         ELSE ResetStep([reset EXCEPT !.call[c].pc = "update"])

\* await self.repo.delete_reset_token(data.token); await self.repo.session.commit(); return False
complete_password_reset_expired(c) ==
    /\ reset.call[c].pc = "delete_expired"
    /\ reset.tlock \in {"none", c}
    /\ \E ok \in BOOLEAN :
         IF ok THEN ResetReturn([reset EXCEPT !.token = FALSE], c, "False")
               ELSE ResetReturn(reset, c, "raised")

\* UPDATE users SET hashed_password = ... WHERE id = record.user_id: waits for the row lock
update_user_password(c) ==
    /\ reset.call[c].pc = "update"
    /\ reset.ulock \in {"none", c}
    /\ ResetStep([reset EXCEPT !.call[c].pc = "delete", !.call[c].upd = TRUE, !.ulock = c])

\* DELETE FROM password_reset_tokens WHERE token = ...: deletes the row if it is
\* still there, no row otherwise; waits for the row lock
delete_reset_token(c) ==
    /\ reset.call[c].pc = "delete"
    /\ reset.tlock \in {"none", c}
    /\ ResetStep([reset EXCEPT !.call[c].pc = "commit",
                               !.call[c].del = reset.token,
                               !.tlock = IF reset.token THEN c ELSE @])

\* try: await self.repo.session.commit(); return True / except: rollback, return False
complete_password_reset_commit(c) ==
    /\ reset.call[c].pc = "commit"
    /\ \E ok \in BOOLEAN :
         IF ok
           THEN ResetReturn([reset EXCEPT
                    !.hashed_password = IF reset.call[c].upd THEN reset.call[c].new_password ELSE @,
                    !.token = IF reset.call[c].del THEN FALSE ELSE @], c, "True")
           ELSE ResetReturn(reset, c, "False")

complete_password_reset(c) ==
    \/ complete_password_reset_get(c)
    \/ complete_password_reset_check(c)
    \/ complete_password_reset_expired(c)
    \/ update_user_password(c)
    \/ delete_reset_token(c)
    \/ complete_password_reset_commit(c)

\* ---- presigned URLs (services/image_storage_service.py, api/endpoints/image_endpoint.py) ----
\* an entry of _url_cache: (url, expiry_timestamp); url 0 stands for no entry
NoEntry == [url |-> 0, expiry |-> 0]

\* CloudflareR2Service.__init__: self._url_cache = {}
CloudflareR2Service_init == [k \in Names |-> NoEntry]

NoUrls == [now |-> 0, cache |-> CloudflareR2Service_init, nextUrl |-> 1, calls |-> <<>>]

\* the expires_in query parameter of GET /{filename}: the default and a longer one
ExpiresIn == {3600, 7200}

\* CloudflareR2Service.get_url on an instance whose cache is `cache`, at time
\* `now`: the cached URL if its expiry is more than 3000 s away, otherwise a URL
\* signed now (numbered nextUrl), which replaces the entry; signing may raise
get_url(cache, now, nextUrl, filename, expires_in, raises) ==
    IF cache[filename].url # 0 /\ cache[filename].expiry > now + REUSE_MARGIN
      THEN [cache |-> cache, url |-> cache[filename].url, expiry |-> cache[filename].expiry,
            cached |-> TRUE]
      ELSE IF raises
        THEN [cache |-> cache, url |-> 0, expiry |-> 0, cached |-> FALSE]
        ELSE [cache |-> [cache EXCEPT ![filename] = [url |-> nextUrl, expiry |-> now + expires_in]],
              url |-> nextUrl, expiry |-> now + expires_in, cached |-> FALSE]

UrlStep(x) ==
    /\ urls' = x
    /\ UNCHANGED <<db, blobs, nextKey, nextCat, nextWord, pc, op, loc, tx, resp, log, pre, started,
                   nextProfile, seed, seeded, tts, store, listing, reset>>

\* GET /{filename} with STORAGE_TYPE = CLOUDFLARE: Depends(get_storage_service)
\* builds a CloudflareR2Service for the request, the endpoint calls get_url on it once
get_image_url ==
    /\ Len(urls.calls) < MaxUrlCalls
    /\ \E filename \in Names, expires_in \in ExpiresIn, raises \in BOOLEAN :
         LET storage == CloudflareR2Service_init
             out == get_url(storage, urls.now, urls.nextUrl, filename, expires_in, raises)
         IN UrlStep([urls EXCEPT
                !.cache = out.cache,
                !.nextUrl = IF out.url = urls.nextUrl THEN @ + 1 ELSE @,
                !.calls = Append(@, [filename |-> filename, at |-> urls.now, url |-> out.url,
                                     expiry |-> out.expiry, cached |-> out.cached])])

\* time.time() moves on
time_passes ==
    /\ urls.now + Tick <= MaxNow
    /\ UrlStep([urls EXCEPT !.now = @ + Tick])

\* ---- specifications ---------------------------------------------------------
Cat(p, key) == [profile_id |-> p, name |-> "t0", image_url |-> key]
Word(c, key) == [category_id |-> c, word |-> "t0", image_url |-> key]

InitRequests ==
    /\ pc = [r \in Reqs |-> "idle"]
    /\ op = [r \in Reqs |-> NoOp]
    /\ loc = [r \in Reqs |-> NoLoc]
    /\ tx = [r \in Reqs |-> <<>>]
    /\ resp = [r \in Reqs |-> 0]
    /\ log = [r \in Reqs |-> <<>>]
    /\ pre = [r \in Reqs |-> NoSnap]
    /\ seed = [r \in Reqs |-> NoSeed]
    /\ tts = NoTts
    /\ store = NoStore
    /\ listing = NoListing
    /\ reset = NoReset
    /\ urls = NoUrls
    /\ started = 0

\* u1 owns one profile with one category holding one word; u2 owns nothing
\* (both are registered; the profile of u1 is not one seed_initial_profile made)
Init ==
    /\ db = [users |-> Users,
             profiles |-> (1 :> [user_id |-> "u1"]),
             categories |-> (1 :> Cat(1, 1)),
             image_words |-> (1 :> Word(1, 2))]
    /\ blobs = {1, 2}
    /\ seeded = [u \in Users |-> 0]
    /\ nextKey = 3
    /\ nextCat = 2
    /\ nextWord = 2
    /\ nextProfile = 2
    /\ InitRequests

\* u1 owns one profile with 2 categories of 2 words each; u2 owns nothing
InitSeq ==
    /\ db = [users |-> Users,
             profiles |-> (1 :> [user_id |-> "u1"]),
             categories |-> (1 :> Cat(1, 1)) @@ (2 :> Cat(1, 4)),
             image_words |-> (1 :> Word(1, 2)) @@ (2 :> Word(1, 3))
                             @@ (3 :> Word(2, 5)) @@ (4 :> Word(2, 6))]
    /\ blobs = 1..6
    /\ seeded = [u \in Users |-> 0]
    /\ nextKey = 7
    /\ nextCat = 3
    /\ nextWord = 5
    /\ nextProfile = 2
    /\ InitRequests

\* requests of u1 on its own rows, any two of them concurrently
Start(r) ==
    /\ started < MaxStarted
    /\ \E o \in OpsOf({"u1"}, {1}, {1}, {1}) : Begin(r, o, FALSE)

\* requests of either user on u1's rows and on ids that do not exist, one at a time
StartSeq(r) ==
    /\ started < MaxStartedSeq
    /\ \A r2 \in Reqs : pc[r2] = "idle"
    /\ \E o \in OpsOf(Users, {1, 9}, {1, 9}, {1, 9}) : Begin(r, o, TRUE)

Step(r) ==
    \/ get_category_by_id(r)
    \/ create_category(r)
    \/ update_category(r)
    \/ delete_category(r)
    \/ find_by_id(r)
    \/ save(r)
    \/ update(r)
    \/ delete_by_id(r)
    \/ delete_profile(r)
    \/ Return(r)

Next == \E r \in Reqs : Start(r) \/ Step(r)

NextSeq == \E r \in Reqs : StartSeq(r) \/ Step(r)

Spec == Init /\ [][Next]_vars

SpecSeq == InitSeq /\ [][NextSeq]_vars

\* rows without an image: categories.image_url and image_words.image_url are
\* nullable, category 1 and word 1 hold NULL, category 2 and word 2 an asset each
InitNull ==
    /\ db = [users |-> Users,
             profiles |-> (1 :> [user_id |-> "u1"]),
             categories |-> (1 :> Cat(1, None)) @@ (2 :> Cat(1, 1)),
             image_words |-> (1 :> Word(1, None)) @@ (2 :> Word(2, 2))]
    /\ blobs = {1, 2}
    /\ seeded = [u \in Users |-> 0]
    /\ nextKey = 3
    /\ nextCat = 3
    /\ nextWord = 3
    /\ nextProfile = 2
    /\ InitRequests

SpecNull == InitNull /\ [][NextSeq]_vars

\* u1 was registered before seeding existed and has no profile yet
InitLogin ==
    /\ db = [users |-> {"u1"}, profiles |-> <<>>, categories |-> <<>>, image_words |-> <<>>]
    /\ blobs = {}
    /\ seeded = [u \in Users |-> 0]
    /\ nextKey = 1
    /\ nextCat = 1
    /\ nextWord = 1
    /\ nextProfile = 1
    /\ InitRequests

\* the default profile as seed_categories_and_image_words leaves it: the two
\* catalog categories with keys 1 and 2, the six catalog words with keys 3..8
SeededDb ==
    [users |-> {"u1"},
     profiles |-> (1 :> [user_id |-> "u1"]),
     categories |-> [c \in 1..2 |-> [profile_id |-> 1, name |-> categories_to_seed[c], image_url |-> c]],
     image_words |-> [w \in 1..6 |->
        [category_id |-> IF words_to_seed[w][1] = categories_to_seed[1] THEN 1 ELSE 2,
         word |-> words_to_seed[w][2], image_url |-> w + 2]]]

\* u1 has logged in once and got its default profile; u2 is not registered
InitSeed ==
    /\ db = SeededDb
    /\ blobs = 1..8
    /\ seeded = [u \in Users |-> IF u = "u1" THEN 1 ELSE 0]
    /\ nextKey = 9
    /\ nextCat = 3
    /\ nextWord = 7
    /\ nextProfile = 2
    /\ InitRequests

\* registrations and logins of either user, profile creations and deletions of
\* a registered user, one request at a time
StartSeed(r) ==
    /\ started < MaxStartedSeed
    /\ \A r2 \in Reqs : pc[r2] = "idle"
    /\ \/ \E u \in Users : \E kind \in {"register_user", "authenticate_user"} : BeginSeed(r, kind, u, TRUE)
       \/ \E u \in db.users : BeginSeed(r, "save_profile", u, TRUE)
       \/ \E u \in db.users : \E p \in ProfilesOf(db, u) :
            /\ Begin(r, [NoOp EXCEPT !.kind = "delete_profile", !.user = u, !.id = p], TRUE)
            /\ UNCHANGED <<nextProfile, seed, seeded, tts, store, listing, reset, urls>>

\* logins of u1 with the right password, any two of them concurrently
StartLogin(r) ==
    /\ started < MaxStartedLogin
    /\ BeginSeed(r, "authenticate_user", "u1", FALSE)

SeedStep(r) ==
    \/ register_user(r)
    \/ authenticate_user(r)
    \/ seed_initial_profile(r)
    \/ seed_categories_and_image_words(r)
    \/ save_profile(r)
    \/ create_category(r)
    \/ save(r)
    \/ delete_profile(r)
    \/ Return(r)

\* the request is in the loop of seed_categories_and_image_words
InLoop(r) == seed[r].kind # "none" /\ (pc[r] = "seed" \/ InSeedCall(r))

\* The loops of two logins fill different profiles, so their steps commute up
\* to the ids and keys they are given: while r1 is in its loop, the loop of
\* another request waits.  Every other step interleaves freely.
LoopTurn(r) == r = "r1" \/ ~InLoop("r1")

LoginStep(r) ==
    \/ authenticate_user(r)
    \/ seed_initial_profile(r)
    \/ LoopTurn(r) /\ seed_categories_and_image_words(r)
    \/ LoopTurn(r) /\ create_category(r)
    \/ LoopTurn(r) /\ save(r)
    \/ Return(r)

NextSeed == \E r \in Reqs : StartSeed(r) \/ SeedStep(r)

NextLogin == \E r \in Reqs : StartLogin(r) \/ LoginStep(r)

SpecSeed == InitSeed /\ [][NextSeed]_vars

SpecLogin == InitLogin /\ [][NextLogin]_vars

\* one text_to_speech call against an upstream that answers each request freely
InitTts == InitLogin
NextTts == text_to_speech \/ make_request
SpecTts == InitTts /\ [][NextTts]_vars

\* the event loop runs the call: a step that can be taken is taken
SpecTtsLive == SpecTts /\ WF_vars(NextTts)

\* requests one at a time as in SpecSeq, and between them the listings of every
\* user on every parent
List ==
    /\ \A r \in Reqs : pc[r] = "idle"
    /\ \E u \in Users :
         \/ \E p \in {1, 9} : find_by_profile(u, p) \/ profile_categories(u, p)
         \/ \E c \in {1, 2, 9} : get_image_words_by_category(u, c)
NextList == NextSeq \/ List
SpecList == InitSeq /\ [][NextList]_vars

\* one reset token and two complete_password_reset calls that present it, in any interleaving
NextReset == initiate_password_reset \/ token_expires \/ \E c \in Reqs : complete_password_reset(c)
SpecReset == InitLogin /\ [][NextReset]_vars

\* one storage backend, uploads and deletes on it in any order
InitStore == InitLogin
NextStore == get_storage_service \/ storage_upload \/ storage_delete
SpecStore == InitStore /\ [][NextStore]_vars

\* presigned URL requests on the cloud backend as time passes
NextUrl == get_image_url \/ time_passes
SpecUrl == InitLogin /\ [][NextUrl]_vars

\* ---- endpoints ---------------------------------------------------------------
\* status the HTTP client sees for a service outcome: create_image_word and
\* update_image_word turn every exception of the service into a 400, the other
\* endpoints let the service's HTTPException through
endpoint_status(kind, status) ==
    IF kind \in {"save", "update"} /\ status >= 400 THEN 400 ELSE status

\* ---- reading the state ------------------------------------------------------
Done(r) == pc[r] = "done"

Idx(r) == 1..Len(log[r])

Happened(r, e, ok) == \E i \in Idx(r) : log[r][i].e = e /\ log[r][i].ok = ok

DeleteCalls(r, k) == {i \in Idx(r) : log[r][i].e = "delete" /\ log[r][i].k = k}

AnyDeleteCall(r) == \E i \in Idx(r) : log[r][i].e = "delete"

\* asset keys referenced by committed rows
RefKeys(d) ==
    {d.categories[c].image_url : c \in DOMAIN d.categories}
    \cup {d.image_words[w].image_url : w \in DOMAIN d.image_words}

\* ---- C1 ---------------------------------------------------------------------
\* C1: in every reachable state no committed Category or ImageWord row
\* references an asset key that is absent from the blob store.
C1_NoDanglingReference ==
    \A k \in RefKeys(db) : Truthy(k) => k \in blobs

\* ---- C2 ---------------------------------------------------------------------
\* a create whose upload went through and whose row write or commit then failed
C2_FailedAfterUpload(r) ==
    /\ Done(r)
    /\ op[r].kind \in Creates
    /\ Happened(r, "upload", TRUE)
    /\ Happened(r, "write", FALSE) \/ Happened(r, "commit", FALSE)

\* C2 as stated: after such a create has returned, it returned an error, no
\* row is committed and the uploaded asset no longer exists in the blob store.
C2_NoOrphanAfterFailedCreate ==
    \A r \in Reqs : C2_FailedAfterUpload(r) =>
        /\ resp[r] >= 400
        /\ loc[r].image_url \notin RefKeys(db)
        /\ tx[r] = <<>>
        /\ loc[r].image_url \notin blobs

\* C2 amended: after such a create has returned, it returned an error, no row
\* is committed, and exactly one compensating delete of the uploaded asset was
\* issued, as the last call of the operation; the asset is gone from the blob
\* store unless that delete call itself failed.
C2_CompensatedAfterFailedCreate ==
    \A r \in Reqs : C2_FailedAfterUpload(r) =>
        /\ resp[r] \in {404, 500}
        /\ loc[r].image_url \notin RefKeys(db)
        /\ tx[r] = <<>>
        /\ DeleteCalls(r, loc[r].image_url) = {Len(log[r])}
        /\ log[r][Len(log[r])].ok => loc[r].image_url \notin blobs

\* a create_category whose commit failed after the upload and whose asset was removed again
C2_Witness ==
    \E r \in Reqs :
        /\ C2_FailedAfterUpload(r)
        /\ op[r].kind = "create_category"
        /\ Happened(r, "commit", FALSE)
        /\ loc[r].image_url \notin blobs

\* ---- C3 ---------------------------------------------------------------------
\* the row an update / delete / read of a Category or ImageWord is aimed at
IsCategoryOp(kind) == kind \in {"update_category", "delete_category", "get_category_by_id"}

TargetRows(d, kind) == IF IsCategoryOp(kind) THEN d.categories ELSE d.image_words

\* an update with a replacement image that failed after the upload and before the commit went through
C3_FailedBeforeCommit(r) ==
    /\ Done(r)
    /\ op[r].kind \in Updates
    /\ op[r].img
    /\ Happened(r, "upload", TRUE)
    /\ ~Happened(r, "commit", TRUE)

\* C3 as stated: after such an update the row still references its original
\* asset key, the original asset still exists, and the new asset has been deleted.
C3_FailedUpdateLeavesOriginal ==
    \A r \in Reqs : C3_FailedBeforeCommit(r) =>
        LET orig == TargetRows(pre[r].db, op[r].kind)[op[r].id].image_url IN
        /\ op[r].id \in DOMAIN TargetRows(db, op[r].kind)
        /\ TargetRows(db, op[r].kind)[op[r].id].image_url = orig
        /\ orig \in blobs
        /\ loc[r].new_image_url \notin blobs

\* C3 amended: after such an update the operation has returned an error, the
\* row (like every other row) is as it was and still references its original
\* asset key, the original asset still exists, and exactly one compensating
\* delete of the new asset was issued, as the last call of the operation; the
\* new asset is gone unless that delete call itself failed.
C3_FailedUpdateCompensated ==
    \A r \in Reqs : C3_FailedBeforeCommit(r) =>
        LET orig == TargetRows(pre[r].db, op[r].kind)[op[r].id].image_url IN
        /\ resp[r] >= 400
        /\ db = pre[r].db
        /\ TargetRows(db, op[r].kind)[op[r].id].image_url = orig
        /\ orig \in blobs
        /\ blobs \ {loc[r].new_image_url} = pre[r].blobs
        /\ DeleteCalls(r, loc[r].new_image_url) = {Len(log[r])}
        /\ log[r][Len(log[r])].ok => loc[r].new_image_url \notin blobs

\* an ImageWord update whose commit failed after the upload, the new asset removed again
C3_Witness ==
    \E r \in Reqs :
        /\ C3_FailedBeforeCommit(r)
        /\ op[r].kind = "update"
        /\ Happened(r, "commit", FALSE)
        /\ loc[r].new_image_url \notin blobs
        /\ loc[r].old_image_url \in blobs

\* ---- C4 ---------------------------------------------------------------------
\* C4: in an update, every delete call for the previous asset key comes after
\* a commit of that update that went through; without such a commit there is none.
C4_OldAssetDeletedOnlyAfterCommit ==
    \A r \in Reqs : op[r].kind \in Updates =>
        \A i \in DeleteCalls(r, Str(loc[r].old_image_url)) :
            \E j \in 1..(i - 1) : log[r][j].e = "commit" /\ log[r][j].ok

\* an update that replaced the image, committed and then deleted the previous asset
C4_Witness ==
    \E r \in Reqs :
        /\ Done(r)
        /\ op[r].kind \in Updates
        /\ op[r].img
        /\ DeleteCalls(r, Str(loc[r].old_image_url)) # {}
        /\ resp[r] = 200

\* ---- C5 ---------------------------------------------------------------------
Range(q) == {q[i] : i \in 1..Len(q)}

\* the asset keys a delete operation collected before its relational delete
Collected(r) ==
    IF op[r].kind = "delete_by_id"
      THEN (IF Truthy(loc[r].image_url) THEN <<Str(loc[r].image_url)>> ELSE <<>>)
      ELSE loc[r].urls_to_delete

\* the keys of the delete calls of a request, in call order
RECURSIVE DeleteKeys(_)
DeleteKeys(q) ==
    IF q = <<>> THEN <<>>
    ELSE (IF Head(q).e = "delete" THEN <<Head(q).k>> ELSE <<>>) \o DeleteKeys(Tail(q))

\* a delete operation that has returned after its relational delete was committed
C5_CommittedDelete(r) ==
    /\ Done(r)
    /\ op[r].kind \in Deletes
    /\ Happened(r, "commit", TRUE)

\* the entity a delete was aimed at and every row below it are gone
RowsGone(d, kind, id) ==
    CASE kind = "delete_by_id" -> id \notin DOMAIN d.image_words
      [] kind = "delete_category" ->
           id \notin DOMAIN d.categories /\ WordsOfCat(d, id) = {}
      [] kind = "delete_profile" ->
           /\ id \notin DOMAIN d.profiles
           /\ CatsOfProfile(d, id) = {}
           /\ \A w \in DOMAIN d.image_words : d.image_words[w].category_id \in DOMAIN d.categories
      [] OTHER -> TRUE

SubtreeKeys(d, kind, id) ==
    CASE kind = "delete_by_id" -> {d.image_words[id].image_url}
      [] kind = "delete_category" ->
           {d.categories[id].image_url} \cup {d.image_words[w].image_url : w \in WordsOfCat(d, id)}
      [] kind = "delete_profile" ->
           {d.categories[c].image_url : c \in CatsOfProfile(d, id)}
           \cup {d.image_words[w].image_url :
                   w \in {x \in DOMAIN d.image_words : d.image_words[x].category_id \in CatsOfProfile(d, id)}}
      [] OTHER -> {}

\* C6: a delete operation has collected the asset keys of the entity and its
\* descendants when it issues the relational delete; it calls the blob store's
\* delete only after its commit went through; and when the relational delete
\* or the commit fails it returns an error with the transaction rolled back,
\* no delete call made, and every row and every asset as before.
C6_DeleteOrder ==
    \A r \in Reqs : op[r].kind \in Deletes =>
        /\ pc[r] = "write" =>
              Range(Collected(r)) = SubtreeKeys(db, op[r].kind, op[r].id)
        /\ \A i \in Idx(r) : log[r][i].e = "delete" =>
              \E j \in 1..(i - 1) : log[r][j].e = "commit" /\ log[r][j].ok
        /\ (Done(r) /\ (Happened(r, "write", FALSE) \/ Happened(r, "commit", FALSE))) =>
              /\ resp[r] = 500
              /\ tx[r] = <<>>
              /\ ~AnyDeleteCall(r)
              /\ db = pre[r].db
              /\ blobs = pre[r].blobs

\* a profile delete whose commit failed: it has returned and the rows are still there
C6_Witness ==
    \E r \in Reqs :
        /\ Done(r)
        /\ op[r].kind = "delete_profile"
        /\ Happened(r, "commit", FALSE)
        /\ op[r].id \in DOMAIN db.profiles
        /\ Len(Collected(r)) = 6

\* ---- C7 ---------------------------------------------------------------------
\* C7: when a delete operation committed and one of its blob deletes failed,
\* the operation still returns success, the rows stay deleted, the key of the
\* failed delete gets no second call, and every collected key has been tried.
C7_BlobFailureAfterCommit ==
    \A r \in Reqs : (C5_CommittedDelete(r) /\ Happened(r, "delete", FALSE)) =>
        /\ resp[r] = 204
        /\ endpoint_status(op[r].kind, resp[r]) = 204
        /\ RowsGone(db, op[r].kind, op[r].id)
        /\ \A i \in Idx(r) : (log[r][i].e = "delete" /\ ~log[r][i].ok) =>
              DeleteCalls(r, log[r][i].k) = {i}
        /\ Len(DeleteKeys(log[r])) = Len(Collected(r))

\* a category delete whose first blob delete failed and whose next one went through
C7_Witness ==
    \E r \in Reqs :
        /\ C5_CommittedDelete(r)
        /\ op[r].kind = "delete_category"
        /\ \E i \in Idx(r) : \E j \in Idx(r) :
              /\ i < j
              /\ log[r][i].e = "delete" /\ ~log[r][i].ok
              /\ log[r][j].e = "delete" /\ log[r][j].ok

\* ---- C8 ---------------------------------------------------------------------
\* C8: when the upload of a create or update fails, the operation returns an
\* error without having attempted a relational write: no row is inserted or
\* changed and the blob store holds what it held before.
C8_UploadFailureAborts ==
    \A r \in Reqs : (op[r].kind \in Creates \cup Updates /\ Happened(r, "upload", FALSE)) =>
        /\ ~\E i \in Idx(r) : log[r][i].e \in {"write", "commit"}
        /\ tx[r] = <<>>
        /\ db = pre[r].db
        /\ blobs = pre[r].blobs
        /\ Done(r) => resp[r] >= 400

\* a create and an update that have returned after their upload failed
C8_Witness ==
    \E r \in Reqs :
        /\ Done(r)
        /\ op[r].kind \in {"create_category", "update"}
        /\ Happened(r, "upload", FALSE)
        /\ resp[r] = 500

\* ---- C9 ---------------------------------------------------------------------
\* the commit of an update that supplied no image goes through
C9_TextOnlyCommit(r) ==
    /\ op[r].kind \in Updates
    /\ ~op[r].img
    /\ pc[r] = "commit"
    /\ pc'[r] = "done"
    /\ resp'[r] = 200

\* C9: an update that supplies no new image makes no blob store call, and its
\* commit leaves the row's asset key as it was: only the text field changes.
C9_TextOnlyUpdateKeepsAssetKey ==
    /\ [](\A r \in Reqs : (op[r].kind \in Updates /\ ~op[r].img) =>
            ~\E i \in Idx(r) : log[r][i].e \in {"upload", "delete"})
    /\ [][\A r \in Reqs : C9_TextOnlyCommit(r) =>
            /\ blobs' = blobs
            /\ op[r].id \in DOMAIN TargetRows(db, op[r].kind)
            /\ TargetRows(db', op[r].kind)[op[r].id].image_url
                 = TargetRows(db, op[r].kind)[op[r].id].image_url]_vars

\* ---- C10 --------------------------------------------------------------------
\* the target id of a read / update / delete of a Category or ImageWord, as the
\* requesting user sees it when the request begins
TargetClass(d, kind, user, id) ==
    LET mine == IF IsCategoryOp(kind) THEN CatsOfUser(d, user) ELSE WordsOfUser(d, user) IN
    IF id \in mine THEN "own"
    ELSE IF id \in DOMAIN TargetRows(d, kind) THEN "foreign" ELSE "absent"

C10_Ops == {"get_category_by_id", "update_category", "delete_category",
            "find_by_id", "update", "delete_by_id"}

\* what a user is told about an id that does not exist
NotFoundResponse(kind) == endpoint_status(kind, 404)

\* C10: a read, update or delete aimed at a row of another user is answered
\* exactly as one aimed at an id that does not exist (the not-found response of
\* that endpoint), and neither store is touched.
C10_ForeignLooksAbsent ==
    \A r \in Reqs :
        (Done(r) /\ op[r].kind \in C10_Ops
         /\ TargetClass(pre[r].db, op[r].kind, op[r].user, op[r].id) \in {"foreign", "absent"}) =>
            /\ resp[r] = 404
            /\ endpoint_status(op[r].kind, resp[r]) = NotFoundResponse(op[r].kind)
            /\ log[r] = <<>>
            /\ tx[r] = <<>>
            /\ db = pre[r].db
            /\ blobs = pre[r].blobs

\* u2 has been answered on an update that was aimed at a row of u1
C10_Witness ==
    \E r \in Reqs :
        /\ Done(r)
        /\ op[r].kind = "update_category"
        /\ op[r].user = "u2"
        /\ op[r].img
        /\ TargetClass(pre[r].db, op[r].kind, op[r].user, op[r].id) = "foreign"

\* ---- C11 --------------------------------------------------------------------
\* C11: no Category, ImageWord or Profile operation ever answers 403, neither
\* from the service nor at its endpoint, also when the row a delete is aimed
\* at was removed by another request after the ownership check.
C11_NeverForbidden ==
    \A r \in Reqs : resp[r] # 403 /\ endpoint_status(op[r].kind, resp[r]) # 403

\* a category delete that found its row and whose DELETE then matched no row,
\* another request having removed the row in between
C11_Witness ==
    \E r \in Reqs :
        /\ Done(r)
        /\ op[r].kind = "delete_category"
        /\ loc[r].err = "HTTPException"
        /\ loc[r].urls_to_delete # <<>>
        /\ op[r].id \notin DOMAIN db.categories

\* ---- C12 --------------------------------------------------------------------
\* rows a request has added: every Category it flushed or committed lies under
\* a Profile of the requesting user, every ImageWord under one of that user's Categories
C12_RowsUnderOwnParent(r) ==
    /\ \A c \in DOMAIN View(r).categories \ DOMAIN pre[r].db.categories :
          View(r).categories[c].profile_id \in ProfilesOf(pre[r].db, op[r].user)
    /\ \A w \in DOMAIN View(r).image_words \ DOMAIN pre[r].db.image_words :
          View(r).image_words[w].category_id \in CatsOfUser(pre[r].db, op[r].user)

\* an ImageWord creation aimed at a category id that is absent or another user's has returned
C12_SaveUnderForeign(r) ==
    /\ pre[r].set
    /\ Done(r)
    /\ op[r].kind = "save"
    /\ op[r].id \notin CatsOfUser(pre[r].db, op[r].user)

\* C12 as stated: rows are only ever added under a parent of the requesting
\* user, and an ImageWord creation aimed at an absent or foreign category is
\* answered not-found and leaves no asset in the blob store.
C12_ParentValidatedNoAsset ==
    \A r \in Reqs : pre[r].set =>
        /\ C12_RowsUnderOwnParent(r)
        /\ C12_SaveUnderForeign(r) =>
              /\ resp[r] = 404
              /\ db = pre[r].db
              /\ blobs = pre[r].blobs

\* C12 amended: rows are only ever added under a parent of the requesting
\* user; an ImageWord creation aimed at an absent or foreign category leaves
\* the rows as they were and, when its upload went through, is answered
\* not-found (404 from the service, 400 at the endpoint) after exactly one
\* compensating delete of the uploaded asset, which is gone unless that delete
\* itself failed; when the upload fails the answer is a 500 with nothing stored.
C12_ParentValidated ==
    \A r \in Reqs : pre[r].set =>
        /\ C12_RowsUnderOwnParent(r)
        /\ C12_SaveUnderForeign(r) =>
              /\ db = pre[r].db
              /\ tx[r] = <<>>
              /\ IF Happened(r, "upload", TRUE)
                   THEN /\ resp[r] = 404
                        /\ endpoint_status(op[r].kind, resp[r]) = 400
                        /\ DeleteCalls(r, loc[r].image_url) = {Len(log[r])}
                        /\ blobs \ {loc[r].image_url} = pre[r].blobs
                        /\ log[r][Len(log[r])].ok => blobs = pre[r].blobs
                   ELSE /\ resp[r] = 500
                        /\ blobs = pre[r].blobs

\* u2 has been answered on an ImageWord creation under a category of u1, the upload removed again
C12_Witness ==
    \E r \in Reqs :
        /\ C12_SaveUnderForeign(r)
        /\ op[r].user = "u2"
        /\ op[r].id \in DOMAIN pre[r].db.categories
        /\ Happened(r, "upload", TRUE)
        /\ blobs = pre[r].blobs

\* ---- C13 --------------------------------------------------------------------
\* C13: a Category creation aimed at a profile id that is absent or another
\* user's, its upload having gone through, is answered with a 4xx status.
C13_UnownedProfileIs4xx ==
    \A r \in Reqs :
        (/\ pre[r].set
         /\ Done(r)
         /\ op[r].kind = "create_category"
         /\ op[r].id \notin ProfilesOf(pre[r].db, op[r].user)
         /\ Happened(r, "upload", TRUE)) =>
            /\ resp[r] >= 400
            /\ resp[r] < 500

\* ---- seeding: reading the state ----------------------------------------------
\* a registration, login or profile creation has returned to its caller
Returned(r, kind) == Done(r) /\ ~InSeedCall(r) /\ seed[r].kind = kind

\* a login of u1 has come back with the seeded profile in place
LoginReachesSeeded ==
    \E r \in Reqs : Returned(r, "authenticate_user") /\ resp[r] = 200 /\ db = SeededDb /\ blobs = 1..8

\* profile p holds the seed catalog: the two categories in catalog order, each
\* with its three words in catalog order, every row with an asset in the blob store
FullCatalog(d, b, p) ==
    LET cs == SortedSeq(CatsOfProfile(d, p)) IN
    /\ Len(cs) = Len(categories_to_seed)
    /\ \A c \in 1..Len(cs) :
         LET ws == SortedSeq(WordsOfCat(d, cs[c]))
             entries == SelectSeq(words_to_seed, LAMBDA e : e[1] = categories_to_seed[c])
         IN
         /\ d.categories[cs[c]].name = categories_to_seed[c]
         /\ d.categories[cs[c]].image_url \in b
         /\ Len(ws) = 3
         /\ Len(ws) = Len(entries)
         /\ \A w \in 1..Len(ws) :
              /\ d.image_words[ws[w]].word = entries[w][2]
              /\ d.image_words[ws[w]].image_url \in b

\* ---- C14 --------------------------------------------------------------------
\* C14: when the seeding has failed and the registration, login or profile
\* creation that started it has returned its error, the Profile, Category and
\* ImageWord tables are as they were before that operation began.
C14_NoHalfSeededProfile ==
    \A r \in Reqs :
        (Done(r) /\ ~InSeedCall(r) /\ seed[r].kind # "none" /\ seed[r].failed) =>
            /\ resp[r] >= 400
            /\ db.profiles = seed[r].db.profiles
            /\ db.categories = seed[r].db.categories
            /\ db.image_words = seed[r].db.image_words

\* ---- C15 --------------------------------------------------------------------
\* C15: when register_user has returned an error for an email that was not
\* registered before the call, no User row for that email is committed.
C15_FailedRegistrationLeavesNoUser ==
    \A r \in Reqs :
        (Returned(r, "register_user") /\ resp[r] >= 400 /\ seed[r].user \notin seed[r].db.users) =>
            seed[r].user \notin db.users

\* ---- C16 --------------------------------------------------------------------
\* C16: when a login that found its user without a profile has returned
\* normally, the user has exactly one profile and it holds the full seed catalog.
C16_LoginSeedsFullCatalog ==
    \A r \in Reqs :
        (Returned(r, "authenticate_user") /\ resp[r] = 200 /\ seed[r].profile_id # None) =>
            /\ ProfilesOf(db, seed[r].user) = {seed[r].profile_id}
            /\ FullCatalog(db, blobs, seed[r].profile_id)
            /\ Cardinality(WordsOfUser(db, seed[r].user)) = Len(words_to_seed)

\* ---- C17 --------------------------------------------------------------------
\* C17: for every user, seed_initial_profile has had at most one default profile committed.
C17_SeededOncePerUser ==
    \A u \in Users : seeded[u] <= 1

\* ---- C18 --------------------------------------------------------------------
\* C18: when two logins of the same user have both returned normally, the user
\* has exactly one profile.
C18_ConcurrentLoginsOneProfile ==
    (\A r \in Reqs : Returned(r, "authenticate_user") /\ resp[r] = 200 /\ seed[r].user = "u1") =>
        Cardinality(ProfilesOf(db, "u1")) = 1

\* ---- C19 --------------------------------------------------------------------
\* C19: a catalog category that fails to be created does not make the seeding
\* fail: the seeding never raises while it is at a category entry.
C19_FailedCategoryIsSkipped ==
    \A r \in Reqs :
        (seed[r].kind # "none" /\ seed[r].i \in 1..Len(categories_to_seed)) => ~seed[r].failed

\* ---- C20 --------------------------------------------------------------------
\* C20: one text_to_speech call sends at most 5 requests to the upstream
\* endpoint, whatever the upstream answers and whichever requests fail.
C20_AtMostFiveRequests == Len(tts.sent) <= 5

\* the call has ended after 5 requests, every one of them a retryable failure
C20_Witness ==
    /\ tts.pc = "done"
    /\ Len(tts.sent) = 5
    /\ tts.status_code = 503
    /\ \E i \in 1..5 : tts.sent[i].raised # "none"
    /\ \E i \in 1..5 : tts.sent[i].status_code = 429

\* ---- C21 --------------------------------------------------------------------
\* the outcome of a request after which the claim allows another attempt
RetryableFailure(response) ==
    \/ response.raised # "none"
    \/ response.status_code = 429
    \/ response.status_code >= 500

\* a response with a 4xx status other than 429
OtherClientError(response) ==
    /\ response.raised = "none"
    /\ response.status_code \in 400..499
    /\ response.status_code # 429

\* C21: every request that was followed by another one ended in status 429, a
\* status >= 500 or a network/timeout error and was not the 5th; a request that
\* got any other 4xx status is the last one, the call has ended with 400, and
\* the attempt that sent it did not sleep.
C21_RetryOnlyAfterRetryable ==
    /\ \A i \in 1..(Len(tts.sent) - 1) : RetryableFailure(tts.sent[i]) /\ i < 5
    /\ \A i \in 1..Len(tts.sent) :
         OtherClientError(tts.sent[i]) =>
            /\ i = Len(tts.sent)
            /\ tts.pc = "done"
            /\ tts.status_code = 400
            /\ \A k \in 1..Len(tts.slept) : tts.slept[k].attempt # i - 1

\* a 400 answer to the third request, after two retried failures, has ended the call
C21_Witness ==
    /\ tts.pc = "done"
    /\ Len(tts.sent) = 3
    /\ tts.sent[3] = Response(400)
    /\ tts.sent[1] = Response(503)
    /\ tts.sent[2].raised = "TimeoutError"

\* ---- C22 --------------------------------------------------------------------
\* C22: a call that has ended with every one of its requests a retryable failure
\* has sent exactly 5 requests and has raised 503.
C22_ExhaustedIsServiceUnavailable ==
    (tts.pc = "done" /\ \A i \in 1..Len(tts.sent) : RetryableFailure(tts.sent[i])) =>
        /\ Len(tts.sent) = 5
        /\ tts.status_code = 503

\* 503 on every one of the 5 requests, the call has ended
C22_Witness ==
    /\ tts.pc = "done"
    /\ Len(tts.sent) = 5
    /\ \A i \in 1..5 : tts.sent[i] = Response(503)
    /\ tts.status_code = 503

\* ---- C23 --------------------------------------------------------------------
\* the sleeps made by attempt a
SleepsOf(a) == {k \in 1..Len(tts.slept) : tts.slept[k].attempt = a}

\* C23: no sleep is made before the first request is sent; an attempt that was
\* followed by another one made exactly one sleep, and the last attempt of a
\* call that has ended made none, so an ended call slept once per retry.
C23_OneSleepPerRetry ==
    /\ tts.sent = <<>> => tts.slept = <<>>
    /\ \A a \in 0..(MAX_RETRIES - 1) :
         /\ a < tts.attempt => Cardinality(SleepsOf(a)) = 1
         /\ a > tts.attempt => SleepsOf(a) = {}
         /\ Cardinality(SleepsOf(tts.attempt)) <= 1
    /\ tts.pc = "done" =>
         /\ SleepsOf(tts.attempt) = {}
         /\ Len(tts.slept) = Len(tts.sent) - 1

\* ---- C24 --------------------------------------------------------------------
\* C24: a call whose requests were answered 429, 429, 429, 200 and that has
\* ended has returned the audio bytes and has slept exactly 2 times.
C24_ThreeTimes429Then200 ==
    (tts.pc = "done" /\ tts.sent = <<Response(429), Response(429), Response(429), Response(200)>>) =>
        /\ tts.status_code = 200
        /\ Len(tts.slept) = 2

\* ---- C26 --------------------------------------------------------------------
RECURSIVE SleptMs(_, _)
\* the time slept by attempt a, summed over the first n sleeps of the call
SleptMs(a, n) ==
    IF n = 0 THEN 0
    ELSE SleptMs(a, n - 1) + (IF tts.slept[n].attempt = a THEN tts.slept[n].delay_s ELSE 0)

\* C26: once attempt a + 1 has begun, the time slept since attempt a lies in
\* [500 * 2^a, 500 * 2^a + 500] ms, for a = 0..3.
C26_BackoffWithinBounds ==
    \A a \in 0..3 :
        a < tts.attempt =>
            /\ SleptMs(a, Len(tts.slept)) >= 500 * Pow2(a)
            /\ SleptMs(a, Len(tts.slept)) <= 500 * Pow2(a) + 500

\* ---- C25 --------------------------------------------------------------------
\* C25: a text_to_speech call that has begun ends, and an ended call has
\* returned the bytes of a 2xx response (200) or raised 400 or 503; it never
\* raises the 500 that follows the retry loop.
C25_TerminatesClassified ==
    /\ (tts.pc # "idle") ~> (tts.pc = "done")
    /\ [](tts.pc = "done" => tts.status_code \in {200, 400, 503})

\* the call has ended in its last attempt (attempt 4), on a network error
C25_Witness ==
    /\ tts.pc = "done"
    /\ tts.attempt = MAX_RETRIES - 1
    /\ tts.sent[Len(tts.sent)].raised = "RequestError"
    /\ tts.status_code = 503

\* ---- C27 --------------------------------------------------------------------
\* a create or update that failed after its upload and whose compensating delete failed
C27_CompensationFailed(r) ==
    /\ Done(r)
    /\ op[r].kind \in Creates \cup Updates
    /\ Happened(r, "upload", TRUE)
    /\ ~Happened(r, "commit", TRUE)
    /\ Happened(r, "delete", FALSE)

\* the error the failure itself maps to: 404 for NoResultFound in the ImageWord
\* service, 500 otherwise
C27_PrimaryError(r) ==
    IF op[r].kind \in {"save", "update"} /\ loc[r].err = "NoResultFound" THEN 404 ELSE 500

\* C27: after such an operation has returned, its transaction is rolled back
\* (no pending write, the committed rows as before the operation) and the
\* response is the error of the primary failure.
C27_CompensationFailureNotRaised ==
    \A r \in Reqs : C27_CompensationFailed(r) =>
        /\ tx[r] = <<>>
        /\ db = pre[r].db
        /\ resp[r] = C27_PrimaryError(r)

\* an ImageWord created under a category that is not the caller's: 404, the
\* uploaded asset left in the store by the failed compensating delete
C27_Witness ==
    \E r \in Reqs :
        /\ C27_CompensationFailed(r)
        /\ op[r].kind = "save"
        /\ resp[r] = 404
        /\ loc[r].image_url \in blobs

\* ---- C28 --------------------------------------------------------------------
\* committed Category and ImageWord rows that reference asset key k
RowsReferencing(d, k) ==
    {<<"c", c>> : c \in {x \in DOMAIN d.categories : d.categories[x].image_url = k}}
    \cup {<<"w", w>> : w \in {x \in DOMAIN d.image_words : d.image_words[x].image_url = k}}

\* C28: in every reachable state every asset key is referenced by at most one
\* committed Category or ImageWord row.
C28_OneRowPerAssetKey ==
    \A k \in RefKeys(db) : Truthy(k) => Cardinality(RowsReferencing(db, k)) <= 1

\* an ImageWord has been created with an image: its fresh key is referenced by
\* the new row alone, next to the rows and keys that were there before
C28_Witness ==
    \E r \in Reqs :
        /\ Done(r)
        /\ op[r].kind = "save"
        /\ Happened(r, "commit", TRUE)
        /\ Cardinality(RowsReferencing(db, loc[r].image_url)) = 1
        /\ Cardinality(RefKeys(db)) >= 3

\* ---- C29 --------------------------------------------------------------------
\* C29: in every reachable state every committed Category row refers to a
\* committed Profile, every ImageWord row to a committed Category and every
\* Profile row to a registered User.
C29_OwnershipChainTotal ==
    /\ \A p \in DOMAIN db.profiles : db.profiles[p].user_id \in db.users
    /\ \A c \in DOMAIN db.categories : db.categories[c].profile_id \in DOMAIN db.profiles
    /\ \A w \in DOMAIN db.image_words : db.image_words[w].category_id \in DOMAIN db.categories

\* a profile with a category and a word below it has been deleted while another
\* request was creating a row below it: no row is left
C29_Witness ==
    \E r, r2 \in Reqs :
        /\ Done(r)
        /\ op[r].kind = "delete_profile"
        /\ Happened(r, "commit", TRUE)
        /\ op[r2].kind \in Creates
        /\ Happened(r2, "upload", TRUE)
        /\ DOMAIN db.profiles = {}
        /\ DOMAIN db.categories = {}
        /\ DOMAIN db.image_words = {}

\* ---- C30 --------------------------------------------------------------------
\* C30: every delete call on either backend returns a boolean: true when the
\* key was in the store and has been removed, false when the key was not in the
\* store; a second delete of a key right after one that removed it leaves the
\* store as it is and returns false.
C30_DeleteContract ==
    \A i \in 1..Len(store.calls) :
        LET c == store.calls[i] IN
        /\ c.result \in BOOLEAN
        /\ (c.filename \in c.before /\ c.filename \notin c.after) => c.result
        /\ c.filename \notin c.before => ~c.result
        /\ (i > 1 /\ store.calls[i - 1].filename = c.filename
                  /\ store.calls[i - 1].result /\ store.calls[i - 1].after = c.before) =>
              /\ c.after = c.before
              /\ ~c.result

\* ---- C31 --------------------------------------------------------------------
\* C31: the rows a listing has returned are in creation order, that is in
\* ascending order of the ids the sequences gave them.
C31_ListingInCreationOrder ==
    \A i, j \in DOMAIN listing.result : i < j => listing.result[i] < listing.result[j]

\* ---- C32 --------------------------------------------------------------------
\* C32: of the complete_password_reset calls that presented the token at most
\* one has returned True, and once one has returned True the token row is gone.
C32_TokenSingleUse ==
    /\ Cardinality({c \in Reqs : reset.call[c].result = "True"}) <= 1
    /\ (\E c \in Reqs : reset.call[c].result = "True") => ~reset.token

\* ---- C33 --------------------------------------------------------------------
\* no request is in progress, every request that was started is still at its
\* return, and no upload or delete call of any of them failed
C33_QuietNoBlobFailure ==
    /\ \A r \in Reqs : pc[r] \in {"idle", "done"}
    /\ Cardinality({r \in Reqs : pc[r] = "done"}) = started
    /\ \A r \in Reqs : \A i \in Idx(r) : log[r][i].e \in {"upload", "delete"} => log[r][i].ok

\* C33: in such a state every asset in the blob store is referenced by a committed row.
C33_NoOrphanWhenQuiet ==
    C33_QuietNoBlobFailure => blobs \subseteq RefKeys(db)

\* ---- C34 --------------------------------------------------------------------
\* the asset the row written by request r references once r's commit is through
C34_Referenced(r) ==
    IF op[r].kind \in Creates THEN loc[r].image_url
    ELSE IF op[r].img THEN loc[r].new_image_url ELSE loc[r].old_image_url

\* C34: once the commit of a create or of an update has gone through, no later
\* delete call of the same operation names the asset its committed row references,
\* whether or not the later steps (the delete of the previous asset) succeed
C34_CommittedAssetKept ==
    \A r \in Reqs : op[r].kind \in Creates \cup Updates =>
        \A i, j \in Idx(r) :
            (i < j /\ log[r][i].e = "commit" /\ log[r][i].ok /\ log[r][j].e = "delete")
                => log[r][j].k # C34_Referenced(r)

\* an update-replace has committed, the delete of its previous asset has failed,
\* and the operation has returned 200 with the new asset still stored
C34_FailedCleanupAfterCommit ==
    \E r \in Reqs :
        /\ Done(r) /\ op[r].kind \in Updates /\ op[r].img /\ resp[r] = 200
        /\ \E i, j \in Idx(r) : i < j /\ log[r][i].e = "commit" /\ log[r][i].ok
                                /\ log[r][j].e = "delete" /\ ~log[r][j].ok
        /\ loc[r].new_image_url \in blobs

\* ---- C35 --------------------------------------------------------------------
\* request r is a registration or a login of a user who had a profile when it began
C35_HadProfile(r) ==
    /\ seed[r].kind \in {"register_user", "authenticate_user"}
    /\ seed[r].snap
    /\ ProfilesOf(seed[r].db, seed[r].user) # {}

\* C35: no step taken while a registration or a login of a user who already
\* has a profile is being served changes a row or the blob store, or uploads an
\* asset
C35_NoSeedingWhenProfileExists ==
    [][(\E r \in Reqs : C35_HadProfile(r)) =>
          (db' = db /\ blobs' = blobs /\ nextKey' = nextKey /\ nextProfile' = nextProfile)]_vars

\* the first request, a login of the seeded user, has gone through the seeding
\* check, committed and returned 200 with both stores as they were
C35_LoginWithProfileDone ==
    \E r \in Reqs :
        /\ C35_HadProfile(r) /\ Returned(r, "authenticate_user") /\ resp[r] = 200
        /\ db = SeededDb /\ blobs = 1..8 /\ nextKey = 9

\* ---- C36 --------------------------------------------------------------------
\* asset keys the rows held when request r began
C36_KeysBefore(r) == RefKeys(pre[r].db) \ {None}

\* C36: every storage delete call of a delete or an update names an asset key
\* that a row held when the operation began, or the key the update itself has
\* just uploaded; a row whose image_url is NULL gives rise to no delete call
C36_DeleteCallsNameReferencedKeys ==
    \A r \in Reqs : (op[r].kind \in Deletes \cup Updates /\ pre[r].set) =>
        \A i \in Idx(r) : log[r][i].e = "delete" =>
            log[r][i].k \in C36_KeysBefore(r) \cup ({loc[r].new_image_url} \ {None})

\* ---- C37 --------------------------------------------------------------------
\* C37: during and after an ImageWordService.update, gone through or failed, the
\* word keeps the category it had when the update began, in the committed rows
\* and in what the session of the update sees, whatever category_id was passed
C37_UpdateKeepsCategory ==
    \A r \in Reqs :
        (op[r].kind = "update" /\ pre[r].set /\ op[r].id \in DOMAIN pre[r].db.image_words) =>
            \A d \in {db, View(r)} :
                op[r].id \in DOMAIN d.image_words =>
                    d.image_words[op[r].id].category_id = pre[r].db.image_words[op[r].id].category_id

\* an update that passed another category_id than the word's has committed and
\* returned 200: the word text is the new one, the category the old one
C37_UpdatedWithOtherCategory ==
    \E r \in Reqs :
        /\ op[r].kind = "update" /\ Done(r) /\ resp[r] = 200 /\ pre[r].set
        /\ Happened(r, "commit", TRUE)
        /\ op[r].id \in DOMAIN db.image_words
        /\ db.image_words[op[r].id].word = op[r].text
        /\ op[r].category_id # pre[r].db.image_words[op[r].id].category_id
        /\ db.image_words[op[r].id].category_id = pre[r].db.image_words[op[r].id].category_id

\* ---- C38 --------------------------------------------------------------------
\* C38: a get_url call for a key returns the URL an earlier call returned for
\* that key as long as that URL is valid for more than 3000 s, and a URL taken
\* from the cache is always valid for more than 3000 s
C38_UrlReusedUntilNearExpiry ==
    /\ \A i, j \in DOMAIN urls.calls :
          (/\ i < j
           /\ urls.calls[i].filename = urls.calls[j].filename
           /\ urls.calls[i].url # 0 /\ urls.calls[j].url # 0
           /\ urls.calls[i].expiry > urls.calls[j].at + REUSE_MARGIN)
              => urls.calls[j].url = urls.calls[i].url
    /\ \A j \in DOMAIN urls.calls :
          urls.calls[j].cached => urls.calls[j].expiry > urls.calls[j].at + REUSE_MARGIN

====
